---- MODULE Spec2Model ----
(***************************************************************************)
(* A model of Kronuz/base-x: the arbitrary-precision unsigned integer      *)
(* uint_t (src/uint_t.hh) and the BaseX codec built on it (src/base_x.hh). *)
(*                                                                         *)
(* The digit type is a preprocessor parameter of the source (DIGIT_T,      *)
(* HALF_DIGIT_T).  The model fixes the build DIGIT_T = std::uint16_t,      *)
(* HALF_DIGIT_T = std::uint8_t, the narrowest pair the static_assert of    *)
(* src/uint_t.hh:133 admits: every digit and every half-digit fits a TLC   *)
(* integer, and each primitive follows the `digit_bits == 16` branch of    *)
(* the source.  A uint_t is modelled by the digits its window shows,       *)
(* least-significant digit first: <<>> is the canonical zero.              *)
(***************************************************************************)
EXTENDS Integers, Sequences, FiniteSets, TLC

VARIABLES pc, a, b, c, out

vars == <<pc, a, b, c, out>>

---------------------------------------------------------------------------
(* Digit geometry                                                          *)

digit_octets == 2
digit_bits == digit_octets * 8
half_digit_octets == 1
half_digit_bits == half_digit_octets * 8
karatsuba_cutoff == 1024 \div digit_bits

RECURSIVE Pow2(_)
Pow2(n) == IF n = 0 THEN 1 ELSE 2 * Pow2(n - 1)

\* number of values of a digit, of a half-digit
DigitBase == Pow2(digit_bits)
HalfBase == Pow2(half_digit_bits)
DigitMax == DigitBase - 1

Min(x, y) == IF x < y THEN x ELSE y
Max(x, y) == IF x > y THEN x ELSE y

---------------------------------------------------------------------------
(* Bit operations on one digit (C++ &, |, ^, ~, <<, >> on `digit`)         *)

RECURSIVE BitAnd(_, _)
BitAnd(x, y) ==
    IF x = 0 \/ y = 0 THEN 0
    ELSE (x % 2) * (y % 2) + 2 * BitAnd(x \div 2, y \div 2)

RECURSIVE BitOr(_, _)
BitOr(x, y) ==
    IF x = 0 THEN y
    ELSE IF y = 0 THEN x
    ELSE Max(x % 2, y % 2) + 2 * BitOr(x \div 2, y \div 2)

RECURSIVE BitXor(_, _)
BitXor(x, y) ==
    IF x = 0 THEN y
    ELSE IF y = 0 THEN x
    ELSE ((x + y) % 2) + 2 * BitXor(x \div 2, y \div 2)

\* ~x stored back into a digit
BitNot(x) == DigitMax - x

\* (x << n) stored back into a digit, 0 <= n <= digit_bits
ShiftLeftDigit(x, n) == (x % Pow2(digit_bits - n)) * Pow2(n)

\* x >> n, 0 <= n <= digit_bits
ShiftRightDigit(x, n) == x \div Pow2(n)

---------------------------------------------------------------------------
(* Word-level primitives                                                   *)

\* src/uint_t.hh:294-318, the portable loop: 1 for x = 0
RECURSIVE BitLoop(_, _)
BitLoop(x, cnt) == IF x = 0 THEN cnt ELSE BitLoop(x \div 2, cnt + 1)

_bits(x) == BitLoop(x, IF x = 0 THEN 1 ELSE 0)

\* src/uint_t.hh:365-368: r = uint32(x) * uint32(y); lo = r; hi = r >> 16.
\* TLC integers are 32-bit signed, so the 32-bit unsigned product is
\* assembled from the four half-digit partial products.
_mult(x, y) ==
    LET Cross(x0, x1, y0, y1) ==
            LET u == x0 * y0
                v == x1 * y0 + (u \div HalfBase)
                w == x0 * y1 + (v % HalfBase)
            IN  [lo |-> (w % HalfBase) * HalfBase + (u % HalfBase),
                 hi |-> x1 * y1 + (v \div HalfBase) + (w \div HalfBase)]
    IN  Cross(x % HalfBase, x \div HalfBase, y % HalfBase, y \div HalfBase)

\* src/uint_t.hh:421-424: r = uint32(x) * y + a + c; lo = r; hi = r >> 16.
\* The sum never exceeds 2^32 - 1, so the 32-bit value does not wrap.
_multadd(x, y, add_a, add_c) ==
    LET Sum(m, s) == [lo |-> s % DigitBase,
                      hi |-> (m.hi + (s \div DigitBase)) % DigitBase]
        Add(m) == Sum(m, m.lo + add_a + add_c)
    IN  Add(_mult(x, y))

\* src/uint_t.hh:489-495: x = uint32(x_hi) << 16 | x_lo; q = digit(x / y);
\* r = digit(x % y).  The store into `digit q` drops the quotient's bits
\* from 2^16 up; the low 16 bits are the quotient of ((x_hi % y), x_lo).
_divmod(x_hi, x_lo, y) ==
    LET Low(q1, t2) == [q |-> (q1 * HalfBase + (t2 \div y)) % DigitBase,
                        r |-> t2 % y]
        High(t1) == Low(t1 \div y, (t1 % y) * HalfBase + (x_lo % HalfBase))
    IN  High((x_hi % y) * HalfBase + (x_lo \div HalfBase))

\* a sum of exactly 2^16 gives no carry
_addcarry_above(x, y, cin) ==
    LET Split(r) == [sum |-> r % DigitBase, carry |-> IF r > DigitBase THEN 1 ELSE 0]
    IN  Split(x + y + cin)

\* src/uint_t.hh:564-567
_addcarry(x, y, cin) ==
    LET Split(r) == [sum |-> r % DigitBase, carry |-> IF r >= DigitBase THEN 1 ELSE 0]
    IN  Split(x + y + cin)

\* src/uint_t.hh:633-636: r = uint32(x) - y - c wraps below zero
_subborrow(x, y, cin) ==
    LET Split(r) == [sum |-> r % DigitBase, carry |-> IF r < 0 THEN 1 ELSE 0]
    IN  Split(x - y - cin)

---------------------------------------------------------------------------
(* Helpers of uint_t                                                       *)

\* Loops over the digits of a number are written as balanced recursions
\* (the steps of [lo, mid] first, then those of [mid + 1, hi] from the state
\* the first half left), which visit the digits in the code's order.

\* index of the last non-zero digit of s within lo..hi, 0 when there is none
RECURSIVE LastNonZero(_, _, _)
LastNonZero(s, lo, hi) ==
    IF lo > hi THEN 0
    ELSE IF lo = hi THEN (IF s[lo] # 0 THEN lo ELSE 0)
    ELSE LET Upper(mid, r) == IF r # 0 THEN r ELSE LastNonZero(s, lo, mid)
             Halve(mid) == Upper(mid, LastNonZero(s, mid + 1, hi))
         IN  Halve((lo + hi) \div 2)

\* the loop of trim: drop the zero digits from the most significant end
StripZeros(s) == SubSeq(s, 1, LastNonZero(s, 1, Len(s)))

\* src/uint_t.hh:646-659
trim(s, mask) ==
    LET Masked(m) == IF m # 0 /\ Len(s) # 0
                     THEN Append(SubSeq(s, 1, Len(s) - 1), s[Len(s)] % Pow2(m))
                     ELSE s
    IN  StripZeros(Masked(mask % digit_bits))

RECURSIVE Zeros(_)
Zeros(n) ==
    IF n = 0 THEN <<>>
    ELSE IF n = 1 THEN <<0>>
    ELSE Zeros(n \div 2) \o Zeros(n - (n \div 2))

\* digit idx (0-based) of s, 0 beyond its end (uint_t::value)
value(s, idx) == IF idx < Len(s) THEN s[idx + 1] ELSE 0

\* src/uint_t.hh:2080-2086
bits(s) ==
    IF Len(s) # 0 THEN _bits(s[Len(s)]) + (Len(s) - 1) * digit_bits ELSE 0

\* uint_t(const T& value) for a host integer that fits one digit
uint(n) == IF n # 0 THEN <<n % DigitBase>> ELSE <<>>

\* the number a digit sequence denotes; only for sequences short enough
\* for a TLC integer (used to state claims, never by the operations)
RECURSIVE NatOf(_)
NatOf(s) == IF Len(s) = 0 THEN 0 ELSE s[1] + DigitBase * NatOf(Tail(s))

canonical(s) == Len(s) = 0 \/ s[Len(s)] # 0

---------------------------------------------------------------------------
(* Bitwise operators                                                       *)

\* src/uint_t.hh:779-821 (operator&, and operator&= through 774-777)
bitwise_and(lhs, rhs) ==
    LET Digits(low, result_sz) ==
            [i \in 1..result_sz |-> IF i <= low THEN BitAnd(lhs[i], rhs[i]) ELSE 0]
    IN  trim(Digits(Min(Len(lhs), Len(rhs)), Max(Len(lhs), Len(rhs))), 0)

\* src/uint_t.hh:834-876 (operator|, and operator|= through 829-832)
bitwise_or(lhs, rhs) ==
    LET Digits(low, result_sz) ==
            [i \in 1..result_sz |->
                IF i <= low THEN BitOr(lhs[i], rhs[i])
                ELSE IF i <= Len(lhs) THEN lhs[i] ELSE rhs[i]]
    IN  trim(Digits(Min(Len(lhs), Len(rhs)), Max(Len(lhs), Len(rhs))), 0)

\* src/uint_t.hh:888-930 (operator^, and operator^= through 883-886)
bitwise_xor(lhs, rhs) ==
    LET Digits(low, result_sz) ==
            [i \in 1..result_sz |->
                IF i <= low THEN BitXor(lhs[i], rhs[i])
                ELSE IF i <= Len(lhs) THEN lhs[i] ELSE rhs[i]]
    IN  trim(Digits(Min(Len(lhs), Len(rhs)), Max(Len(lhs), Len(rhs))), 0)

\* src/uint_t.hh:961-988, the form operator~ calls: a zero operand yields
\* one all-ones digit, masked to its lowest bit
bitwise_inv(lhs) ==
    LET Digits(bts, result_sz) ==
            trim([i \in 1..result_sz |->
                     IF i <= Len(lhs) THEN BitNot(lhs[i]) ELSE BitNot(0)],
                 (IF bts # 0 THEN bts ELSE 1) % DigitBase)
    IN  Digits(bits(lhs), IF Len(lhs) # 0 THEN Len(lhs) ELSE 1)

\* src/uint_t.hh:938-959, the form inv() calls on the object itself: the
\* loop runs over the size before the append, so the digit appended to a
\* zero operand stays 0
bitwise_inv_inplace(lhs) ==
    LET Digits(bts, grown) ==
            trim([i \in 1..Len(grown) |->
                     IF i <= Len(lhs) THEN BitNot(lhs[i]) ELSE grown[i]],
                 (IF bts # 0 THEN bts ELSE 1) % DigitBase)
    IN  Digits(bits(lhs), IF Len(lhs) = 0 THEN <<0>> ELSE lhs)

---------------------------------------------------------------------------
(* Comparison                                                              *)

RECURSIVE CompareFrom(_, _, _)
CompareFrom(lhs, rhs, i) ==
    IF i = 0 THEN 0
    ELSE IF lhs[i] = rhs[i] THEN CompareFrom(lhs, rhs, i - 1)
    ELSE IF lhs[i] > rhs[i] THEN 1
    ELSE -1

\* the sizes decide alone
compare_sizes(lhs, rhs) ==
    IF Len(lhs) > Len(rhs) THEN 1
    ELSE IF Len(lhs) < Len(rhs) THEN -1
    ELSE 0

\* src/uint_t.hh:1191-1205
compare(lhs, rhs) ==
    IF Len(lhs) > Len(rhs) THEN 1
    ELSE IF Len(lhs) < Len(rhs) THEN -1
    ELSE CompareFrom(lhs, rhs, Len(lhs))

\* src/uint_t.hh:1958-1981, the comparison operators
operator_eq(lhs, rhs) == compare(lhs, rhs) = 0
operator_ne(lhs, rhs) == compare(lhs, rhs) # 0
operator_gt(lhs, rhs) == compare(lhs, rhs) > 0
operator_lt(lhs, rhs) == compare(lhs, rhs) < 0
operator_ge(lhs, rhs) == compare(lhs, rhs) >= 0
operator_le(lhs, rhs) == compare(lhs, rhs) <= 0

---------------------------------------------------------------------------
(* Addition and subtraction                                                *)

\* `result` after result.resize(sz, 0): cut or zero-extended to sz digits
Resized(s, sz) ==
    IF sz <= Len(s) THEN SubSeq(s, 1, sz) ELSE s \o Zeros(sz - Len(s))

\* digit j (1-based) of the suffix of s that begins at index start, 0 past it
SuffixDigit(s, start, j) == IF start + j <= Len(s) THEN s[start + j] ELSE 0

\* the carry chain of long_add over digits lo..hi of the two suffixes;
\* returns the sums and the carry out
RECURSIVE AddChain(_, _, _, _, _, _, _)
AddChain(lhs, lhs_start, rhs, rhs_start, lo, hi, carry) ==
    IF lo > hi THEN [digits |-> <<>>, carry |-> carry]
    ELSE IF lo = hi
    THEN LET One(r) == [digits |-> <<r.sum>>, carry |-> r.carry]
         IN  One(_addcarry(SuffixDigit(lhs, lhs_start, lo),
                           SuffixDigit(rhs, rhs_start, lo), carry))
    ELSE LET Join(l, h) == [digits |-> l.digits \o h.digits, carry |-> h.carry]
             Upper(mid, l) ==
                 Join(l, AddChain(lhs, lhs_start, rhs, rhs_start, mid + 1, hi, l.carry))
             Halve(mid) ==
                 Upper(mid, AddChain(lhs, lhs_start, rhs, rhs_start, lo, mid, carry))
         IN  Halve((lo + hi) \div 2)

\* src/uint_t.hh:1212-1266.  `result` is the content of the result object on
\* entry (it is lhs itself when the caller adds in place).  The two loops of
\* either branch add the shorter suffix zero-extended to the longer one.
long_add(result, lhs, rhs, result_start, lhs_start0, rhs_start0) ==
    LET Finish(kept, ch) ==
            trim(SubSeq(kept, 1, result_start) \o ch.digits
                 \o (IF ch.carry # 0 THEN <<1>> ELSE <<>>), 0)
        Chain(lhs_start, rhs_start, n) ==
            Finish(Resized(result, n + result_start),
                   AddChain(lhs, lhs_start, rhs, rhs_start, 1, n, 0))
        Sizes(lhs_start, rhs_start) ==
            Chain(lhs_start, rhs_start,
                  Max(Len(lhs) - lhs_start, Len(rhs) - rhs_start))
    IN  Sizes(Min(lhs_start0, Len(lhs)), Min(rhs_start0, Len(rhs)))

\* src/uint_t.hh:1281-1293 (and 1268-1279 when result is lhs)
add(result, lhs, rhs, result_start, lhs_start, rhs_start) ==
    IF Len(rhs) = 0 THEN lhs
    ELSE IF Len(lhs) = 0 THEN rhs
    ELSE long_add(result, lhs, rhs, result_start, lhs_start, rhs_start)

\* operator+, src/uint_t.hh:1984-1986 and 1295-1299
plus(lhs, rhs) == add(<<>>, lhs, rhs, 0, 0, 0)

\* the borrow chain of long_sub over digits lo..hi of the two suffixes
RECURSIVE SubChain(_, _, _, _, _, _, _)
SubChain(lhs, lhs_start, rhs, rhs_start, lo, hi, borrow) ==
    IF lo > hi THEN [digits |-> <<>>, carry |-> borrow]
    ELSE IF lo = hi
    THEN LET One(r) == [digits |-> <<r.sum>>, carry |-> r.carry]
         IN  One(_subborrow(SuffixDigit(lhs, lhs_start, lo),
                            SuffixDigit(rhs, rhs_start, lo), borrow))
    ELSE LET Join(l, h) == [digits |-> l.digits \o h.digits, carry |-> h.carry]
             Upper(mid, l) ==
                 Join(l, SubChain(lhs, lhs_start, rhs, rhs_start, mid + 1, hi, l.carry))
             Halve(mid) ==
                 Upper(mid, SubChain(lhs, lhs_start, rhs, rhs_start, lo, mid, borrow))
         IN  Halve((lo + hi) \div 2)

\* src/uint_t.hh:1306-1357; carry is the _carry flag left on the result
long_sub(result, lhs, rhs, result_start, lhs_start0, rhs_start0) ==
    LET Finish(kept, ch) ==
            [digits |-> trim(SubSeq(kept, 1, result_start) \o ch.digits, 0),
             carry |-> ch.carry # 0]
        Chain(lhs_start, rhs_start, n) ==
            Finish(Resized(result, n + result_start),
                   SubChain(lhs, lhs_start, rhs, rhs_start, 1, n, 0))
        Sizes(lhs_start, rhs_start) ==
            Chain(lhs_start, rhs_start,
                  Max(Len(lhs) - lhs_start, Len(rhs) - rhs_start))
    IN  Sizes(Min(lhs_start0, Len(lhs)), Min(rhs_start0, Len(rhs)))

\* src/uint_t.hh:1368-1376 (and 1359-1366 when result is lhs): the digits
sub(result, lhs, rhs, result_start, lhs_start, rhs_start) ==
    IF Len(rhs) = 0 THEN lhs
    ELSE long_sub(result, lhs, rhs, result_start, lhs_start, rhs_start).digits

\* operator-, src/uint_t.hh:1992-1994
minus(lhs, rhs) == sub(<<>>, lhs, rhs, 0, 0, 0)

---------------------------------------------------------------------------
(* Multiplication                                                          *)

\* the loop of single_mult over digits lo..hi of lhs: the products' low
\* digits and the carry out
RECURSIVE SingleMultLoop(_, _, _, _, _)
SingleMultLoop(lhs, n, lo, hi, carry) ==
    IF lo > hi THEN [digits |-> <<>>, carry |-> carry]
    ELSE IF lo = hi
    THEN LET One(r) == [digits |-> <<r.lo>>, carry |-> r.hi]
         IN  One(_multadd(lhs[lo], n, 0, carry))
    ELSE LET Join(l, h) == [digits |-> l.digits \o h.digits, carry |-> h.carry]
             Upper(mid, l) == Join(l, SingleMultLoop(lhs, n, mid + 1, hi, l.carry))
             Halve(mid) == Upper(mid, SingleMultLoop(lhs, n, lo, mid, carry))
         IN  Halve((lo + hi) \div 2)

\* src/uint_t.hh:1386-1414; rhs has one digit.  tmp has lhs_sz + 1 digits,
\* the last one is the final carry (0 when there is none)
single_mult(lhs, rhs) ==
    LET Finish(ch) == trim(Append(ch.digits, ch.carry), 0)
    IN  Finish(SingleMultLoop(lhs, rhs[1], 1, Len(lhs), 0))

\* the inner loop of long_mult over digits lo..hi of rhs: fold rhs * d into
\* the digits of tmp from offset off (0-based)
RECURSIVE LongMultRow(_, _, _, _, _, _, _)
LongMultRow(tmp, rhs, d, off, lo, hi, carry) ==
    IF lo > hi THEN [digits |-> <<>>, carry |-> carry]
    ELSE IF lo = hi
    THEN LET One(r) == [digits |-> <<r.lo>>, carry |-> r.hi]
         IN  One(_multadd(rhs[lo], d, tmp[off + lo], carry))
    ELSE LET Join(l, h) == [digits |-> l.digits \o h.digits, carry |-> h.carry]
             Upper(mid, l) == Join(l, LongMultRow(tmp, rhs, d, off, mid + 1, hi, l.carry))
             Halve(mid) == Upper(mid, LongMultRow(tmp, rhs, d, off, lo, mid, carry))
         IN  Halve((lo + hi) \div 2)

\* one pass of the outer loop of long_mult, for digit i of lhs: tmp after
\* the pass and the index one past the last digit it wrote (_it_result)
LongMultStep(tmp, lhs, rhs, i) ==
    IF lhs[i] = 0 THEN [last |-> 0, tmp |-> tmp]
    ELSE LET Store(row, top, written) ==
                 [last |-> written,
                  tmp |-> SubSeq(tmp, 1, i - 1) \o row.digits \o top
                          \o SubSeq(tmp, written + 1, Len(tmp))]
             Place(row) ==
                 Store(row, IF row.carry # 0 THEN <<row.carry>> ELSE <<>>,
                       i - 1 + Len(rhs) + (IF row.carry # 0 THEN 1 ELSE 0))
         IN  Place(LongMultRow(tmp, rhs, lhs[i], i - 1, 1, Len(rhs), 0))

\* the outer loop of long_mult over digits lo..hi of lhs; last is the
\* largest index any pass reached (it_result_l)
RECURSIVE LongMultRows(_, _, _, _, _)
LongMultRows(tmp, lhs, rhs, lo, hi) ==
    IF lo > hi THEN [last |-> 0, tmp |-> tmp]
    ELSE IF lo = hi THEN LongMultStep(tmp, lhs, rhs, lo)
    ELSE LET Join(l, h) == [last |-> Max(l.last, h.last), tmp |-> h.tmp]
             Upper(mid, l) == Join(l, LongMultRows(l.tmp, lhs, rhs, mid + 1, hi))
             Halve(mid) == Upper(mid, LongMultRows(tmp, lhs, rhs, lo, mid))
         IN  Halve((lo + hi) \div 2)

\* src/uint_t.hh:1416-1466
RECURSIVE long_mult(_, _)
long_mult(lhs, rhs) ==
    IF Len(lhs) > Len(rhs) THEN long_mult(rhs, lhs)
    ELSE IF Len(lhs) = 1 THEN single_mult(rhs, lhs)
    ELSE LET Finish(st) == trim(SubSeq(st.tmp, 1, st.last), 0)
         IN  Finish(LongMultRows(Zeros(Len(lhs) + Len(rhs)), lhs, rhs,
                                 1, Len(lhs)))

\* src/uint_t.hh:1469-1473: the windows [0, n) and [n, end) of num
karatsuba_mult_split(num, n) ==
    [first |-> SubSeq(num, 1, n), second |-> SubSeq(num, n + 1, Len(num))]

RECURSIVE karatsuba_mult(_, _, _)

\* the loop of karatsuba_lopsided_mult: r accumulates the slice products
RECURSIVE LopsidedLoop(_, _, _, _, _, _)
LopsidedLoop(r, lhs, rhs, rhs_begin, shift, cutoff) ==
    IF rhs_begin >= Len(rhs) THEN r
    ELSE LET Slice(slice_size) ==
                 LopsidedLoop(add(r, r,
                                  karatsuba_mult(lhs,
                                                 SubSeq(rhs, rhs_begin + 1,
                                                        rhs_begin + slice_size),
                                                 cutoff),
                                  shift, shift, 0),
                              lhs, rhs, rhs_begin + slice_size,
                              shift + slice_size, cutoff)
         IN  Slice(Min(Len(lhs), Len(rhs) - rhs_begin))

\* src/uint_t.hh:1479-1504
karatsuba_lopsided_mult(lhs, rhs, cutoff) ==
    LopsidedLoop(<<>>, lhs, rhs, 0, 0, cutoff)

\* src/uint_t.hh:1507-1577
karatsuba_mult(lhs, rhs, cutoff) ==
    IF Len(lhs) > Len(rhs) THEN karatsuba_mult(rhs, lhs, cutoff)
    ELSE IF Len(lhs) <= cutoff THEN long_mult(lhs, rhs)
    ELSE IF 2 * Len(lhs) <= Len(rhs) THEN karatsuba_lopsided_mult(lhs, rhs, cutoff)
    ELSE LET \* result = BD + (AD_BC << shift digits), trimmed
             Join(shift, BD, AD_BC) == trim(add(BD, BD, AD_BC, shift, shift, 0), 0)
             \* AD_BC = M - AC - BD; BD takes 2 * shift digits, AC follows it
             Middle(shift, AC, BD, M1) ==
                 Join(shift, Resized(BD, shift * 2) \o AC, sub(M1, M1, BD, 0, 0, 0))
             Products(shift, AC, BD, M) ==
                 Middle(shift, AC, BD, sub(M, M, AC, 0, 0, 0))
             \* lhs = A:B and rhs = C:D, the low windows B and D first
             Split(shift, lhs_pair, rhs_pair) ==
                 Products(shift,
                          karatsuba_mult(lhs_pair.second, rhs_pair.second, cutoff),
                          karatsuba_mult(lhs_pair.first, rhs_pair.first, cutoff),
                          karatsuba_mult(plus(lhs_pair.second, lhs_pair.first),
                                         plus(rhs_pair.second, rhs_pair.first),
                                         cutoff))
             Halve(shift) ==
                 Split(shift, karatsuba_mult_split(lhs, shift),
                       karatsuba_mult_split(rhs, shift))
         IN  Halve(Len(rhs) \div 2)

\* src/uint_t.hh:1584-1600
mult(lhs, rhs) ==
    IF Len(lhs) = 0 \/ Len(rhs) = 0 THEN <<>>
    ELSE IF compare(lhs, uint(1)) = 0 THEN rhs
    ELSE IF compare(rhs, uint(1)) = 0 THEN lhs
    ELSE karatsuba_mult(lhs, rhs, karatsuba_cutoff)

---------------------------------------------------------------------------
(* Shifts                                                                  *)

RECURSIVE divmod(_, _)

\* static_cast<std::size_t>(uint_t), src/uint_t.hh:1873-1875: the low digit
to_size_t(s) == value(s, 0)

\* src/uint_t.hh:1051-1084: lhs moved up by the whole digits dm.q and the
\* bits dm.r
LshiftDigits(lhs, dm) ==
    LET Move(shifts, shift, shifted) ==
            trim(Zeros(shifts)
                 \o [i \in 1..Len(lhs) |->
                        BitOr(ShiftLeftDigit(lhs[i], shift),
                              IF i = 1 THEN 0
                              ELSE ShiftRightDigit(lhs[i - 1], digit_bits - shift))]
                 \o (IF shift # 0 /\ shifted # 0 THEN <<shifted>> ELSE <<>>), 0)
        Top(shifts, shift) ==
            Move(shifts, shift,
                 IF Len(lhs) = 0 THEN 0
                 ELSE ShiftRightDigit(lhs[Len(lhs)], digit_bits - shift))
    IN  Top(to_size_t(dm.q), to_size_t(dm.r))

\* src/uint_t.hh:1031-1084 (operator<<) and 996-1029 (operator<<=): the
\* digits the result's window shows
bitwise_lshift(lhs, rhs) ==
    IF Len(rhs) = 0 THEN lhs
    ELSE LshiftDigits(lhs, divmod(rhs, uint(digit_bits)))

\* only the whole digits of the count are shifted out
bitwise_rshift_digits(lhs, rhs) ==
    IF Len(rhs) = 0 THEN lhs
    ELSE IF compare(rhs, uint((Len(lhs) * digit_bits) % DigitBase)) >= 0 THEN <<>>
    ELSE trim(SubSeq(lhs, to_size_t(divmod(rhs, uint(digit_bits)).q) + 1, Len(lhs)), 0)

\* src/uint_t.hh:1156-1183: lhs moved down by the whole digits dm.q and the
\* bits dm.r
RshiftDigits(lhs, dm) ==
    LET Move(shifts, shift, result_sz) ==
            trim([i \in 1..result_sz |->
                     BitOr(ShiftRightDigit(lhs[shifts + i], shift),
                           IF i = result_sz THEN 0
                           ELSE ShiftLeftDigit(lhs[shifts + i + 1],
                                               digit_bits - shift))], 0)
        Size(shifts, shift) == Move(shifts, shift, Len(lhs) - shifts)
    IN  Size(to_size_t(dm.q), to_size_t(dm.r))

\* src/uint_t.hh:1130-1183 (operator>>) and 1092-1128 (operator>>=): the
\* digits the result's window shows
bitwise_rshift(lhs, rhs) ==
    IF Len(rhs) = 0 THEN lhs
    ELSE IF compare(rhs, uint((Len(lhs) * digit_bits) % DigitBase)) >= 0 THEN <<>>
    ELSE RshiftDigits(lhs, divmod(rhs, uint(digit_bits)))

---------------------------------------------------------------------------
(* Division                                                                *)

RECURSIVE SingleDivLoop(_, _, _, _, _)
SingleDivLoop(lhs, n, i, r, q) ==
    IF i = 0 THEN [q |-> q, r |-> r]
    ELSE LET Store(d) == SingleDivLoop(lhs, n, i - 1, d.r, [q EXCEPT ![i] = d.q])
         IN  Store(_divmod(r, lhs[i], n))

\* src/uint_t.hh:1610-1634; rhs has one digit
single_divmod(lhs, rhs) ==
    LET Finish(res) == [thrown |-> "none", q |-> trim(res.q, 0), r |-> uint(res.r)]
    IN  Finish(SingleDivLoop(lhs, rhs[1], Len(lhs), 0, Zeros(Len(lhs))))

\* D3, the loop that tightens the estimate (src/uint_t.hh:1683-1689)
RECURSIVE KnuthTighten(_, _, _, _, _)
KnuthTighten(q, r, wm1, wm2, rlo) ==
    LET Lower(q2, s) == IF s.carry # 0 THEN q2
                        ELSE KnuthTighten(q2, s.sum, wm1, wm2, rlo)
        Test(m) == IF m.hi > r \/ (m.hi = r /\ m.lo > rlo)
                   THEN Lower((q - 1) % DigitBase, _addcarry(r, wm1, 0))
                   ELSE q
    IN  Test(_mult(q, wm2))

\* D4, v[k..k+n) -= q * w (src/uint_t.hh:1696-1700); k is 0-based
RECURSIVE KnuthMulSub(_, _, _, _, _, _, _)
KnuthMulSub(v, w, q, k, i, mulhi, carry) ==
    IF i > Len(w) THEN [v |-> v, carry |-> carry]
    ELSE LET Store(m, s) ==
                 KnuthMulSub([v EXCEPT ![k + i] = s.sum], w, q, k, i + 1, m.hi, s.carry)
             Subtract(m) == Store(m, _subborrow(v[k + i], m.lo, carry))
         IN  Subtract(_multadd(w[i], q, 0, mulhi))

\* D6, v[k..k+n) += w (src/uint_t.hh:1710-1712)
RECURSIVE KnuthAddBack(_, _, _, _, _)
KnuthAddBack(v, w, k, i, carry) ==
    IF i > Len(w) THEN [v |-> v, carry |-> carry]
    ELSE LET Store(s) == KnuthAddBack([v EXCEPT ![k + i] = s.sum], w, k, i + 1, s.carry)
         IN  Store(_addcarry(v[k + i], w[i], carry))

\* D2-D7, one quotient digit per position k, k counting down to 0
\* (src/uint_t.hh:1676-1718)
RECURSIVE KnuthLoop(_, _, _, _)
KnuthLoop(v, w, q, k) ==
    IF k < 0 THEN [v |-> v, q |-> q]
    ELSE LET top == k + Len(w) + 1
             \* D6: the carry out of the addition goes into the top digit
             Restore(ab) == [ab.v EXCEPT ![top] = _addcarry(ab.v[top], 0, ab.carry).sum]
             \* D5: store the digit, one less after the add-back of D6
             Settle(q1, v1, borrow) ==
                 IF borrow # 0
                 THEN KnuthLoop(Restore(KnuthAddBack(v1, w, k, 1, 0)), w,
                                [q EXCEPT ![k + 1] = (q1 - 1) % DigitBase], k - 1)
                 ELSE KnuthLoop(v1, w, [q EXCEPT ![k + 1] = q1], k - 1)
             \* D4: the borrow of the subtraction is taken from the top digit
             Borrow(q1, ms, t) == Settle(q1, [ms.v EXCEPT ![top] = t.sum], t.carry)
             Subtract(q1, ms) == Borrow(q1, ms, _subborrow(ms.v[top], 0, ms.carry))
             MulSub(q1) == Subtract(q1, KnuthMulSub(v, w, q1, k, 1, 0, 0))
             \* D3: the estimate from the two top digits, then tightened
             Estimate(est) ==
                 MulSub(KnuthTighten(est.q, est.r, w[Len(w)], w[Len(w) - 1],
                                     v[top - 2]))
         IN  Estimate(_divmod(v[top], v[top - 1], w[Len(w)]))

\* src/uint_t.hh:1652-1729: D1 after the two shifts, D2-D7, and D8, which
\* shifts the remainder back by d
KnuthDivide(v0, w, d) ==
    LET v1 == IF v0[Len(v0)] >= w[Len(w)] THEN Append(v0, 0) ELSE v0
        k == Len(v1) - Len(w)
        Finish(res) ==
            [thrown |-> "none", q |-> trim(res.q, 0),
             r |-> trim(bitwise_rshift(Resized(res.v, Len(w)), d), 0)]
    IN  Finish(KnuthLoop(Append(v1, 0), w, Zeros(k + 1), k))

\* src/uint_t.hh:1647-1650: D1, both operands shifted left by d
KnuthNormalize(lhs, rhs, d) ==
    KnuthDivide(bitwise_lshift(lhs, d), bitwise_lshift(rhs, d), d)

\* src/uint_t.hh:1637-1730
knuth_divmod(lhs, rhs) ==
    KnuthNormalize(lhs, rhs, uint(digit_bits - _bits(rhs[Len(rhs)])))

\* src/uint_t.hh:1744-1745 and 1626 (through 489-495): the native a / b and
\* x / y are only defined for a non-zero divisor.  A one-digit divisor whose
\* digit is 0 passes the test of 1734 and reaches one of them unless lhs is
\* empty.
DivByNativeZero(lhs, rhs) == Len(rhs) = 1 /\ rhs[1] = 0 /\ Len(lhs) >= 1

\* src/uint_t.hh:1732-1768.  thrown is "domain_error" for the exception,
\* which leaves both outputs unwritten; not to be applied where
\* DivByNativeZero holds.
divmod(lhs, rhs) ==
    IF Len(rhs) = 0 THEN [thrown |-> "domain_error", q |-> <<>>, r |-> <<>>]
    ELSE IF Len(lhs) = 1 /\ Len(rhs) = 1
    THEN [thrown |-> "none", q |-> uint(lhs[1] \div rhs[1]),
          r |-> uint(lhs[1] % rhs[1])]
    ELSE IF compare(rhs, uint(1)) = 0 THEN [thrown |-> "none", q |-> lhs, r |-> <<>>]
    ELSE LET Ordered(compared) ==
                 IF compared = 0 THEN [thrown |-> "none", q |-> uint(1), r |-> <<>>]
                 ELSE IF Len(lhs) = 0 \/ compared < 0
                 THEN [thrown |-> "none", q |-> <<>>, r |-> lhs]
                 ELSE IF Len(rhs) = 1 THEN single_divmod(lhs, rhs)
                 ELSE knuth_divmod(lhs, rhs)
         IN  Ordered(compare(lhs, rhs))

---------------------------------------------------------------------------
(* Radix conversion: uint_t::str and uint_t::strtouint.  A string is the   *)
(* sequence of its characters' codes, 0..255.  The host is little-endian:  *)
(* the half-digits (here the bytes) of a digit lie low half first.         *)

\* src/uint_t.hh:661-684: the value of a character as a digit, 0xff if none
ord(ch) ==
    IF 48 <= ch /\ ch <= 57 THEN ch - 48
    ELSE IF 65 <= ch /\ ch <= 90 THEN ch - 55
    ELSE IF 97 <= ch /\ ch <= 122 THEN ch - 87
    ELSE 255

\* src/uint_t.hh:687-694: the character of a digit; the table's tail is 0
chr(d) == IF d < 10 THEN 48 + d ELSE IF d < 36 THEN 87 + d ELSE 0

\* src/uint_t.hh:696-716 and 745-748: log2 of a power of two, else 0
base_bits(base) ==
    CASE base = 2 -> 1 [] base = 4 -> 2 [] base = 8 -> 3 [] base = 16 -> 4
      [] base = 32 -> 5 [] base = 64 -> 6 [] base = 128 -> 7 [] base = 256 -> 8
      [] OTHER -> 0

\* reinterpret_cast<const half_digit*>(data()): the half-digits of s in
\* memory order
HalfDigits(s) ==
    [k \in 1..(2 * Len(s)) |->
        IF k % 2 = 1 THEN s[(k + 1) \div 2] % HalfBase
        ELSE s[k \div 2] \div HalfBase]

\* std::reverse
Reverse(s) == [i \in 1..Len(s) |-> s[Len(s) + 1 - i]]

\* index of the last element of s within lo..hi that differs from x, 0 if none
RECURSIVE LastNot(_, _, _, _)
LastNot(s, x, lo, hi) ==
    IF lo > hi THEN 0
    ELSE IF lo = hi THEN (IF s[lo] # x THEN lo ELSE 0)
    ELSE LET Upper(mid, r) == IF r # 0 THEN r ELSE LastNot(s, x, lo, mid)
             Halve(mid) == Upper(mid, LastNot(s, x, mid + 1, hi))
         IN  Halve((lo + hi) \div 2)

\* find_if from the back and resize: drop the trailing elements equal to x
StripTrailing(s, x) == SubSeq(s, 1, LastNot(s, x, 1, Len(s)))

\* src/uint_t.hh:2106-2109, the do-while that emits the digits lying in
\* the window `num` from bit `shift` up to the half-digit boundary
RECURSIVE StrEmit(_, _, _, _, _)
StrEmit(num, shift, alphabet_base_bits, alphabet_base_mask, result) ==
    LET Push(pushed, shift2) ==
            IF shift2 <= half_digit_bits
            THEN StrEmit(num, shift2, alphabet_base_bits, alphabet_base_mask, pushed)
            ELSE [result |-> pushed, shift |-> shift2]
    IN  Push(Append(result,
                    chr(BitAnd(ShiftRightDigit(num, shift), alphabet_base_mask))),
             shift + alphabet_base_bits)

\* src/uint_t.hh:2103-2111, the sweep over the half-digits ptr[1..] (k is
\* the 1-based index of the half-digit read next)
RECURSIVE StrSweep(_, _, _, _, _, _, _)
StrSweep(hd, k, num, shift, alphabet_base_bits, alphabet_base_mask, result) ==
    IF k > Len(hd) THEN [num |-> num, shift |-> shift, result |-> result]
    ELSE LET Next(num2, e) ==
                 StrSweep(hd, k + 1, num2, e.shift - half_digit_bits,
                          alphabet_base_bits, alphabet_base_mask, e.result)
             Emit(num2) ==
                 Next(num2, StrEmit(num2, shift, alphabet_base_bits,
                                    alphabet_base_mask, result))
         IN  Emit(BitOr(ShiftRightDigit(num, half_digit_bits),
                        ShiftLeftDigit(hd[k], half_digit_bits)))

\* src/uint_t.hh:2113-2116: the digits left in the last half-digit
RECURSIVE StrTail(_, _, _, _)
StrTail(num, alphabet_base_bits, alphabet_base_mask, result) ==
    IF num = 0 THEN result
    ELSE StrTail(ShiftRightDigit(num, alphabet_base_bits), alphabet_base_bits,
                 alphabet_base_mask,
                 Append(result, chr(BitAnd(num, alphabet_base_mask))))

\* src/uint_t.hh:2121-2127: repeated division by the base
RECURSIVE StrDivLoop(_, _, _)
StrDivLoop(quotient, uint_base, result) ==
    LET Next(q, pushed) ==
            IF Len(q) # 0 THEN StrDivLoop(q, uint_base, pushed) ELSE pushed
        Push(r) == Next(r.q, Append(result, chr(to_size_t(r.r))))
    IN  Push(divmod(quotient, uint_base))

\* the bytes of s in memory order (reinterpret_cast<const char*>(data()))
Octets(s) == HalfDigits(s)

\* src/uint_t.hh:2089-2150.  thrown names the exception, "none" if none
str(s, alphabet_base) ==
    LET Strip(all) == [thrown |-> "none", text |-> Reverse(StripTrailing(all, chr(0)))]
        Rest(bts, mask, sw) ==
            Strip(StrTail(ShiftRightDigit(sw.num, sw.shift + half_digit_bits),
                          bts, mask, sw.result))
        Sweep(hd, bts, mask) ==
            Rest(bts, mask,
                 StrSweep(hd, 2, ShiftLeftDigit(hd[1], half_digit_bits),
                          0, bts, mask, <<>>))
    IN  IF alphabet_base >= 2 /\ alphabet_base <= 36
        THEN IF Len(s) = 0 THEN [thrown |-> "none", text |-> <<chr(0)>>]
             ELSE IF base_bits(alphabet_base) # 0
             THEN Sweep(HalfDigits(s), base_bits(alphabet_base), alphabet_base - 1)
             ELSE [thrown |-> "none",
                   text |-> Reverse(StrDivLoop(s, uint(alphabet_base), <<>>))]
        ELSE IF alphabet_base = 256
        THEN IF Len(s) # 0
             THEN [thrown |-> "none", text |-> Reverse(StripTrailing(Octets(s), 0))]
             ELSE [thrown |-> "none", text |-> <<0>>]
        ELSE [thrown |-> "invalid_argument", text |-> <<>>]

\* src/uint_t.hh:2159-2163 and 2167-2171: one pass of the loop, for the
\* character at index k; alphabet_base_bits is 0 on the multiply-and-add
\* path.  A character that is no digit of the base throws; the message
\* carries the character (ch) and encoded_size as it is then (at).
StrToUintStep(encoded, k, alphabet_base, alphabet_base_bits, result) ==
    LET Fold(d) ==
            IF compare(d, uint(alphabet_base)) >= 0
            THEN [thrown |-> "runtime_error", num |-> <<>>,
                  ch |-> encoded[k], at |-> Len(encoded) + 1 - k]
            ELSE [thrown |-> "none",
                  num |-> IF alphabet_base_bits # 0
                          THEN bitwise_or(bitwise_lshift(result, uint(alphabet_base_bits)), d)
                          ELSE plus(mult(result, uint(alphabet_base)), d)]
    IN  Fold(uint(ord(encoded[k])))

\* src/uint_t.hh:2158-2164 and 2166-2172: the passes for the characters
\* lo..hi, from the state st the earlier passes left
RECURSIVE StrToUintLoop(_, _, _, _, _, _)
StrToUintLoop(encoded, lo, hi, alphabet_base, alphabet_base_bits, st) ==
    IF lo > hi \/ st.thrown # "none" THEN st
    ELSE IF lo = hi
    THEN StrToUintStep(encoded, lo, alphabet_base, alphabet_base_bits, st.num)
    ELSE LET Upper(mid) ==
                 StrToUintLoop(encoded, mid + 1, hi, alphabet_base, alphabet_base_bits,
                     StrToUintLoop(encoded, lo, mid, alphabet_base,
                                   alphabet_base_bits, st))
         IN  Upper((lo + hi) \div 2)

\* src/uint_t.hh:2152-2191.  The base-256 branch stores the bytes and does
\* not trim: leading zero bytes leave zero digits at the top.
strtouint(encoded, alphabet_base) ==
    LET encoded_size == Len(encoded)
    IN  IF alphabet_base >= 2 /\ alphabet_base <= 36
        THEN StrToUintLoop(encoded, 1, encoded_size, alphabet_base,
                           base_bits(alphabet_base), [thrown |-> "none", num |-> <<>>])
        ELSE IF encoded_size # 0 /\ alphabet_base = 256
        THEN LET value_padding == IF encoded_size % digit_octets # 0
                                  THEN digit_octets - (encoded_size % digit_octets)
                                  ELSE 0
                 value_size == (encoded_size \div digit_octets)
                               + (IF value_padding # 0 THEN 1 ELSE 0)
                 \* the buffer after std::reverse, padding bytes being 0
                 octet(j) == IF j <= encoded_size THEN encoded[encoded_size + 1 - j]
                             ELSE 0
             IN  [thrown |-> "none",
                  num |-> [i \in 1..value_size |->
                              octet(2 * i - 1) + HalfBase * octet(2 * i)]]
        ELSE [thrown |-> "runtime_error", num |-> <<>>]

---------------------------------------------------------------------------
(* BaseX (src/base_x.hh): a codec is its alphabet, the table _ord it was   *)
(* built with, and its constants.  base_x.hh names the integer type        *)
(* uinteger_t; it is the engine of src/uint_t.hh.                          *)

IGNORE_CASE == 1
BLOCK_PADDING == 2

\* flags & f, for a one-bit f
HasFlag(flags, f) == (flags \div f) % 2 = 1

\* the alphabet loop without the IGNORE_CASE branch
OrdWrites_exact(alphabet, flags, i, ch) == alphabet[i] = ch

\* src/base_x.hh:75-84: pass i (1-based) of the alphabet loop writes _ord[ch]
OrdWrites(alphabet, flags, i, ch) ==
    LET x == alphabet[i]
    IN  \/ x = ch
        \/ /\ HasFlag(flags, IGNORE_CASE)
           /\ \/ x >= 65 /\ x <= 90 /\ ch = x - 65 + 97
              \/ x >= 97 /\ x <= 122 /\ ch = x - 97 + 65

\* src/base_x.hh:74-85: _ord[ch] after the passes i, i - 1, .., 1 of the
\* alphabet loop, cur being its value before them
RECURSIVE OrdLoop(_, _, _, _, _)
OrdLoop(alphabet, flags, ch, cur, i) ==
    IF i = 0 THEN cur
    ELSE OrdLoop(alphabet, flags, ch,
                 IF OrdWrites(alphabet, flags, i, ch) THEN i - 1 ELSE cur, i - 1)

\* src/base_x.hh:56-86, the constructor
BaseX(alphabet, ignored, flags) ==
    LET base == Len(alphabet)
        cleared == [ch \in 0..255 |->
                       IF \E k \in 1..Len(ignored) : ignored[k] = ch THEN 0 ELSE 255]
    IN  [alphabet |-> alphabet,
         ord |-> [ch \in 0..255 |-> OrdLoop(alphabet, flags, ch, cleared[ch], base)],
         base |-> base,
         base_bits |-> base_bits(base),
         block_size |-> IF HasFlag(flags, BLOCK_PADDING) THEN base_bits(base) ELSE 0,
         base_mask |-> base - 1]

\* the encoder writes the character of the next digit
BaseX_chr_next(codec, d) ==
    IF d + 1 < codec.base THEN codec.alphabet[d + 2] ELSE codec.alphabet[1]

\* src/base_x.hh:47-49: _chr[ord]; the entries from base up are 0
BaseX_chr(codec, d) == IF d < codec.base THEN codec.alphabet[d + 1] ELSE 0

\* the ignored characters of the rfc4648 codecs, "= \n\r\t"
Ignored_rfc4648 == <<61, 32, 10, 13, 9>>

\* src/base_x.hh:313: "01"
base2 ==
    BaseX(<<48, 49>>,
          <<>>, 0)

\* src/base_x.hh:322: "01234567"
base8 ==
    BaseX(<<48, 49, 50, 51, 52, 53, 54, 55>>,
          <<>>, 0)

\* src/base_x.hh:331: "0123456789a"
base11 ==
    BaseX(<<48, 49, 50, 51, 52, 53, 54, 55, 56, 57, 97>>,
          <<>>, IGNORE_CASE)

\* src/base_x.hh:340: "0123456789abcdef"
base16 ==
    BaseX(<<48, 49, 50, 51, 52, 53, 54, 55, 56, 57, 97, 98, 99, 100, 101,
          102>>,
          <<>>, IGNORE_CASE)

\* src/base_x.hh:345: "0123456789ABCDEF"
base16_rfc4648 ==
    BaseX(<<48, 49, 50, 51, 52, 53, 54, 55, 56, 57, 65, 66, 67, 68, 69,
          70>>,
          Ignored_rfc4648, IGNORE_CASE)

\* src/base_x.hh:354: "ABCDEFGHIJKLMNOPQRSTUVWXYZ234567"
base32 ==
    BaseX(<<65, 66, 67, 68, 69, 70, 71, 72, 73, 74, 75, 76, 77, 78, 79,
          80, 81, 82, 83, 84, 85, 86, 87, 88, 89, 90, 50, 51, 52, 53, 54,
          55>>,
          <<>>, IGNORE_CASE)

\* src/base_x.hh:358: "0123456789ABCDEFGHIJKLMNOPQRSTUV"
base32_hex ==
    BaseX(<<48, 49, 50, 51, 52, 53, 54, 55, 56, 57, 65, 66, 67, 68, 69,
          70, 71, 72, 73, 74, 75, 76, 77, 78, 79, 80, 81, 82, 83, 84, 85,
          86>>,
          <<>>, IGNORE_CASE)

\* src/base_x.hh:362: "ABCDEFGHIJKLMNOPQRSTUVWXYZ234567"
base32_rfc4648 ==
    BaseX(<<65, 66, 67, 68, 69, 70, 71, 72, 73, 74, 75, 76, 77, 78, 79,
          80, 81, 82, 83, 84, 85, 86, 87, 88, 89, 90, 50, 51, 52, 53, 54,
          55>>,
          Ignored_rfc4648, IGNORE_CASE + BLOCK_PADDING)

\* src/base_x.hh:366: "0123456789ABCDEFGHIJKLMNOPQRSTUV"
base32_rfc4648hex ==
    BaseX(<<48, 49, 50, 51, 52, 53, 54, 55, 56, 57, 65, 66, 67, 68, 69,
          70, 71, 72, 73, 74, 75, 76, 77, 78, 79, 80, 81, 82, 83, 84, 85,
          86>>,
          Ignored_rfc4648, IGNORE_CASE + BLOCK_PADDING)

\* src/base_x.hh:370: "0123456789ABCDEFGHJKMNPQRSTVWXYZ"
base32_crockford ==
    BaseX(<<48, 49, 50, 51, 52, 53, 54, 55, 56, 57, 65, 66, 67, 68, 69,
          70, 71, 72, 74, 75, 77, 78, 80, 81, 82, 83, 84, 86, 87, 88, 89,
          90>>,
          <<>>, IGNORE_CASE)

\* src/base_x.hh:379: "0123456789abcdefghijklmnopqrstuvwxyz"
base36 ==
    BaseX(<<48, 49, 50, 51, 52, 53, 54, 55, 56, 57, 97, 98, 99, 100, 101,
          102, 103, 104, 105, 106, 107, 108, 109, 110, 111, 112, 113, 114,
          115, 116, 117, 118, 119, 120, 121, 122>>,
          <<>>, IGNORE_CASE)

\* src/base_x.hh:388: "0123456789ABCDEFGHIJKLMNOPQRSTUVWXYZabcdefghijklmnopqrstuv"
base58_gmp ==
    BaseX(<<48, 49, 50, 51, 52, 53, 54, 55, 56, 57, 65, 66, 67, 68, 69,
          70, 71, 72, 73, 74, 75, 76, 77, 78, 79, 80, 81, 82, 83, 84, 85,
          86, 87, 88, 89, 90, 97, 98, 99, 100, 101, 102, 103, 104, 105,
          106, 107, 108, 109, 110, 111, 112, 113, 114, 115, 116, 117,
          118>>,
          <<>>, 0)

\* src/base_x.hh:393: "123456789ABCDEFGHJKLMNPQRSTUVWXYZabcdefghijkmnopqrstuvwxyz"
base58_bitcoin ==
    BaseX(<<49, 50, 51, 52, 53, 54, 55, 56, 57, 65, 66, 67, 68, 69, 70,
          71, 72, 74, 75, 76, 77, 78, 80, 81, 82, 83, 84, 85, 86, 87, 88,
          89, 90, 97, 98, 99, 100, 101, 102, 103, 104, 105, 106, 107, 109,
          110, 111, 112, 113, 114, 115, 116, 117, 118, 119, 120, 121,
          122>>,
          <<>>, 0)

\* src/base_x.hh:398: "rpshnaf39wBUDNEGHJKLM4PQRST7VWXYZ2bcdeCg65jkm8oFqi1tuvAxyz"
base58_ripple ==
    BaseX(<<114, 112, 115, 104, 110, 97, 102, 51, 57, 119, 66, 85, 68, 78,
          69, 71, 72, 74, 75, 76, 77, 52, 80, 81, 82, 83, 84, 55, 86, 87,
          88, 89, 90, 50, 98, 99, 100, 101, 67, 103, 54, 53, 106, 107,
          109, 56, 111, 70, 113, 105, 49, 116, 117, 118, 65, 120, 121,
          122>>,
          <<>>, 0)

\* src/base_x.hh:403: "123456789abcdefghijkmnopqrstuvwxyzABCDEFGHJKLMNPQRSTUVWXYZ"
base58_flickr ==
    BaseX(<<49, 50, 51, 52, 53, 54, 55, 56, 57, 97, 98, 99, 100, 101, 102,
          103, 104, 105, 106, 107, 109, 110, 111, 112, 113, 114, 115, 116,
          117, 118, 119, 120, 121, 122, 65, 66, 67, 68, 69, 70, 71, 72,
          74, 75, 76, 77, 78, 80, 81, 82, 83, 84, 85, 86, 87, 88, 89, 90>>,
          <<>>, 0)

\* src/base_x.hh:416: "0123456789abcdefghijklmnopqrstuvwxyzABCDEFGHIJKLMNOPQRSTUVWXYZ"
base62_inverted ==
    BaseX(<<48, 49, 50, 51, 52, 53, 54, 55, 56, 57, 97, 98, 99, 100, 101,
          102, 103, 104, 105, 106, 107, 108, 109, 110, 111, 112, 113, 114,
          115, 116, 117, 118, 119, 120, 121, 122, 65, 66, 67, 68, 69, 70,
          71, 72, 73, 74, 75, 76, 77, 78, 79, 80, 81, 82, 83, 84, 85, 86,
          87, 88, 89, 90>>,
          <<>>, 0)

\* src/base_x.hh:421: "0123456789ABCDEFGHIJKLMNOPQRSTUVWXYZabcdefghijklmnopqrstuvwxyz"
base62 ==
    BaseX(<<48, 49, 50, 51, 52, 53, 54, 55, 56, 57, 65, 66, 67, 68, 69,
          70, 71, 72, 73, 74, 75, 76, 77, 78, 79, 80, 81, 82, 83, 84, 85,
          86, 87, 88, 89, 90, 97, 98, 99, 100, 101, 102, 103, 104, 105,
          106, 107, 108, 109, 110, 111, 112, 113, 114, 115, 116, 117, 118,
          119, 120, 121, 122>>,
          <<>>, 0)

\* src/base_x.hh:430: "ABCDEFGHIJKLMNOPQRSTUVWXYZabcdefghijklmnopqrstuvwxyz0123456789+/"
base64 ==
    BaseX(<<65, 66, 67, 68, 69, 70, 71, 72, 73, 74, 75, 76, 77, 78, 79,
          80, 81, 82, 83, 84, 85, 86, 87, 88, 89, 90, 97, 98, 99, 100,
          101, 102, 103, 104, 105, 106, 107, 108, 109, 110, 111, 112, 113,
          114, 115, 116, 117, 118, 119, 120, 121, 122, 48, 49, 50, 51, 52,
          53, 54, 55, 56, 57, 43, 47>>,
          <<>>, 0)

\* src/base_x.hh:435: "ABCDEFGHIJKLMNOPQRSTUVWXYZabcdefghijklmnopqrstuvwxyz0123456789-_"
base64_url ==
    BaseX(<<65, 66, 67, 68, 69, 70, 71, 72, 73, 74, 75, 76, 77, 78, 79,
          80, 81, 82, 83, 84, 85, 86, 87, 88, 89, 90, 97, 98, 99, 100,
          101, 102, 103, 104, 105, 106, 107, 108, 109, 110, 111, 112, 113,
          114, 115, 116, 117, 118, 119, 120, 121, 122, 48, 49, 50, 51, 52,
          53, 54, 55, 56, 57, 45, 95>>,
          <<>>, 0)

\* src/base_x.hh:440: "ABCDEFGHIJKLMNOPQRSTUVWXYZabcdefghijklmnopqrstuvwxyz0123456789+/"
base64_rfc4648 ==
    BaseX(<<65, 66, 67, 68, 69, 70, 71, 72, 73, 74, 75, 76, 77, 78, 79,
          80, 81, 82, 83, 84, 85, 86, 87, 88, 89, 90, 97, 98, 99, 100,
          101, 102, 103, 104, 105, 106, 107, 108, 109, 110, 111, 112, 113,
          114, 115, 116, 117, 118, 119, 120, 121, 122, 48, 49, 50, 51, 52,
          53, 54, 55, 56, 57, 43, 47>>,
          Ignored_rfc4648, BLOCK_PADDING)

\* src/base_x.hh:445: "ABCDEFGHIJKLMNOPQRSTUVWXYZabcdefghijklmnopqrstuvwxyz0123456789-_"
base64_rfc4648url ==
    BaseX(<<65, 66, 67, 68, 69, 70, 71, 72, 73, 74, 75, 76, 77, 78, 79,
          80, 81, 82, 83, 84, 85, 86, 87, 88, 89, 90, 97, 98, 99, 100,
          101, 102, 103, 104, 105, 106, 107, 108, 109, 110, 111, 112, 113,
          114, 115, 116, 117, 118, 119, 120, 121, 122, 48, 49, 50, 51, 52,
          53, 54, 55, 56, 57, 45, 95>>,
          Ignored_rfc4648, BLOCK_PADDING)

\* src/base_x.hh:454: "ABCDEFGHIJKLMNOPQRSTUVWXYZabcdefghijklmnopqrstuvwxyz0123456789-_.!~"
base66 ==
    BaseX(<<65, 66, 67, 68, 69, 70, 71, 72, 73, 74, 75, 76, 77, 78, 79,
          80, 81, 82, 83, 84, 85, 86, 87, 88, 89, 90, 97, 98, 99, 100,
          101, 102, 103, 104, 105, 106, 107, 108, 109, 110, 111, 112, 113,
          114, 115, 116, 117, 118, 119, 120, 121, 122, 48, 49, 50, 51, 52,
          53, 54, 55, 56, 57, 45, 95, 46, 33, 126>>,
          <<>>, 0)

\* the bundled codecs by name
CodecNames ==
    {"base2", "base8", "base11", "base16", "base16_rfc4648", "base32",
     "base32_hex", "base32_rfc4648", "base32_rfc4648hex",
     "base32_crockford", "base36", "base58_gmp", "base58_bitcoin",
     "base58_ripple", "base58_flickr", "base62_inverted", "base62",
     "base64", "base64_url", "base64_rfc4648", "base64_rfc4648url",
     "base66"}

Codec(name) ==
    CASE name = "base2" -> base2
      [] name = "base8" -> base8
      [] name = "base11" -> base11
      [] name = "base16" -> base16
      [] name = "base16_rfc4648" -> base16_rfc4648
      [] name = "base32" -> base32
      [] name = "base32_hex" -> base32_hex
      [] name = "base32_rfc4648" -> base32_rfc4648
      [] name = "base32_rfc4648hex" -> base32_rfc4648hex
      [] name = "base32_crockford" -> base32_crockford
      [] name = "base36" -> base36
      [] name = "base58_gmp" -> base58_gmp
      [] name = "base58_bitcoin" -> base58_bitcoin
      [] name = "base58_ripple" -> base58_ripple
      [] name = "base58_flickr" -> base58_flickr
      [] name = "base62_inverted" -> base62_inverted
      [] name = "base62" -> base62
      [] name = "base64" -> base64
      [] name = "base64_url" -> base64_url
      [] name = "base64_rfc4648" -> base64_rfc4648
      [] name = "base64_rfc4648url" -> base64_rfc4648url
      [] name = "base66" -> base66

\* src/base_x.hh:110-115, the do-while that emits the digits lying in the
\* window v from bit `shift` up to the half-digit boundary
RECURSIVE EncodeEmit(_, _, _, _, _)
EncodeEmit(codec, v, shift, sum, result) ==
    LET Push(d, pushed, shift2) ==
            IF shift2 <= half_digit_bits
            THEN EncodeEmit(codec, v, shift2, BitXor(sum, d), pushed)
            ELSE [result |-> pushed, shift |-> shift2, sum |-> BitXor(sum, d)]
        Digit(d) == Push(d, Append(result, BaseX_chr(codec, d)),
                         shift + codec.base_bits)
    IN  Digit(BitAnd(ShiftRightDigit(v, shift), codec.base_mask))

\* src/base_x.hh:105 and 109, *ptr++ for the 1-based index k.  The count of
\* the sweep comes from num, the half-digits from quotient: where quotient
\* is the shorter one the read is past its end and gives `stale`, whatever
\* the storage holds there.
EncodeRead(hd, k, stale) == IF k <= Len(hd) THEN hd[k] ELSE stale

\* src/base_x.hh:108-116, one pass of the sweep: the half-digit of index k
\* (1-based) is taken into v and the digits that lie below it are emitted
EncodePass(codec, hd, stale, k, st) ==
    LET Next(v2, e) ==
            [v |-> v2, shift |-> e.shift - half_digit_bits, sum |-> e.sum,
             result |-> e.result]
        Emit(v2) == Next(v2, EncodeEmit(codec, v2, st.shift, st.sum, st.result))
    IN  Emit(BitOr(ShiftRightDigit(st.v, half_digit_bits),
                   ShiftLeftDigit(EncodeRead(hd, k, stale), half_digit_bits)))

\* src/base_x.hh:107-117, the sweep: the passes for the half-digits of
\* index lo..hi, from the state st the earlier passes left (between two
\* passes shift is at most half_digit_bits)
RECURSIVE EncodeSweep(_, _, _, _, _, _)
EncodeSweep(codec, hd, stale, lo, hi, st) ==
    IF lo > hi \/ st.shift > half_digit_bits THEN st
    ELSE IF lo = hi THEN EncodePass(codec, hd, stale, lo, st)
    ELSE LET Upper(mid) ==
                 EncodeSweep(codec, hd, stale, mid + 1, hi,
                             EncodeSweep(codec, hd, stale, lo, mid, st))
         IN  Upper((lo + hi) \div 2)

\* src/base_x.hh:119-124: the digits left in the last half-digit
RECURSIVE EncodeTail(_, _, _, _)
EncodeTail(codec, v, sum, result) ==
    IF v = 0 THEN [sum |-> sum, result |-> result]
    ELSE LET Push(d) ==
                 EncodeTail(codec, ShiftRightDigit(v, codec.base_bits),
                            BitXor(sum, d), Append(result, BaseX_chr(codec, d)))
         IN  Push(BitAnd(v, codec.base_mask))

\* the division kernel cut after its first pass: one character only
EncodeDivLoop_once(codec, quotient, uint_base, sum, result) ==
    LET Push(d) == [sum |-> BitXor(sum, d),
                    result |-> Append(result, BaseX_chr(codec, d))]
    IN  Push(to_size_t(divmod(quotient, uint_base).r))

\* src/base_x.hh:130-136: repeated division by the base
RECURSIVE EncodeDivLoop(_, _, _, _, _)
EncodeDivLoop(codec, quotient, uint_base, sum, result) ==
    LET Next(q, sum2, pushed) ==
            IF Len(q) # 0 THEN EncodeDivLoop(codec, q, uint_base, sum2, pushed)
            ELSE [sum |-> sum2, result |-> pushed]
        Push(q, d) == Next(q, BitXor(sum, d), Append(result, BaseX_chr(codec, d)))
        Digit(r) == Push(r.q, to_size_t(r.r))
    IN  Digit(divmod(quotient, uint_base))

\* src/base_x.hh:96-100: the bits the number is shifted left by
EncodePadding(codec, num) ==
    LET Pad(bp) == IF bp # 0 THEN codec.block_size - bp ELSE 0
    IN  IF codec.block_size # 0
        THEN Pad(BitAnd(bits(num) + 7, 248) % codec.block_size)
        ELSE 0

\* src/base_x.hh:89-148, encode of a number; the text is a sequence of
\* character codes
encode(codec, num, checksum, stale) ==
    LET \* 139-144: the checksum character, over the digits and the size
        Check(sum, text, sz) ==
            IF checksum
            THEN Append(text,
                        BaseX_chr(codec,
                                  BitXor(BitXor(sum, (sz \div codec.base) % codec.base),
                                         sz % codec.base)))
            ELSE text
        Text(body, text) == Check(body.sum, text, Len(text))
        Body(body) == Text(body, Reverse(body.result))
        \* 125-127: the leading zero digits are dropped
        Strip(tl) ==
            Body([sum |-> tl.sum,
                  result |-> StripTrailing(tl.result, BaseX_chr(codec, 0))])
        Rest(sw) ==
            Strip(EncodeTail(codec, ShiftRightDigit(sw.v, sw.shift + half_digit_bits),
                             sw.sum, sw.result))
        Sweep(hd) ==
            Rest(EncodeSweep(codec, hd, stale, 2, Len(num) * 2,
                             [v |-> ShiftLeftDigit(EncodeRead(hd, 1, stale),
                                                   half_digit_bits),
                              shift |-> 0, sum |-> 0, result |-> <<>>]))
        Digits(quotient, uint_base) ==
            IF codec.base_bits # 0 THEN Sweep(HalfDigits(quotient))
            ELSE Body(EncodeDivLoop(codec, quotient, uint_base, 0, <<>>))
    IN  IF Len(num) # 0
        THEN Digits(bitwise_lshift(num, uint(EncodePadding(codec, num))),
                    uint(codec.base))
        ELSE <<BaseX_chr(codec, 0)>>

\* src/base_x.hh:157-160, encode of a byte string: uinteger_t(bytes, size, 256)
\* throws for the empty string
encode_bytes(codec, bytes, checksum, stale) ==
    LET Number(n) ==
            IF n.thrown # "none" THEN [thrown |-> n.thrown, text |-> <<>>]
            ELSE [thrown |-> "none", text |-> encode(codec, n.num, checksum, stale)]
    IN  Number(strtouint(bytes, 256))

\* a pass that forgets what the earlier passes read: the number is the
\* digit of the last character
DecodeStep_last(codec, encoded, k, last, st) ==
    [thrown |-> "none", at |-> 0, sum |-> st.sum,
     num |-> uint(codec.ord[encoded[k]])]

\* src/base_x.hh:208-213 and 218-223: one pass of the loop, for the
\* character at index k.  A character above 127 indexes _ord with a
\* negative int: thrown is "undefined" there.  The message of the throw
\* carries the character (ch) and encoded_size as it is then (at).
DecodeStep(codec, encoded, k, last, st) ==
    LET Fold(d) ==
            IF d >= codec.base
            THEN [thrown |-> "invalid_argument", at |-> last + 1 - k,
                  ch |-> encoded[k], sum |-> st.sum, num |-> st.num]
            ELSE [thrown |-> "none", at |-> 0, sum |-> BitXor(st.sum, d),
                  num |-> IF codec.base_bits # 0
                          THEN bitwise_or(bitwise_lshift(st.num, uint(codec.base_bits)),
                                          uint(d))
                          ELSE plus(mult(st.num, uint(codec.base)), uint(d))]
    IN  IF encoded[k] > 127
        THEN [thrown |-> "undefined", at |-> last + 1 - k,
              ch |-> encoded[k], sum |-> st.sum, num |-> st.num]
        ELSE Fold(codec.ord[encoded[k]])

\* src/base_x.hh:206-225, both loops: the passes for the characters lo..hi,
\* from the state st the earlier passes left
RECURSIVE DecodeLoop(_, _, _, _, _, _)
DecodeLoop(codec, encoded, lo, hi, last, st) ==
    IF lo > hi \/ st.thrown # "none" THEN st
    ELSE IF lo = hi THEN DecodeStep(codec, encoded, lo, last, st)
    ELSE LET Upper(mid) ==
                 DecodeLoop(codec, encoded, mid + 1, hi, last,
                            DecodeLoop(codec, encoded, lo, mid, last, st))
         IN  Upper((lo + hi) \div 2)

\* src/base_x.hh:229-238: the checksum character
DecodeChecksum(codec, encoded, body) ==
    LET Check(ch, d) ==
            IF ch > 127 THEN [thrown |-> "undefined", at |-> 0, num |-> body.num]
            ELSE IF d >= codec.base
            THEN [thrown |-> "invalid_argument", at |-> 0, ch |-> ch,
                  num |-> body.num]
            ELSE IF BitXor(body.sum, d) # 0
            THEN [thrown |-> "invalid_checksum", at |-> 0, num |-> body.num]
            ELSE [thrown |-> "none", at |-> 0, num |-> body.num]
        Char(ch) == Check(ch, codec.ord[ch])
    IN  Char(encoded[Len(encoded)])

\* src/base_x.hh:193-239, decode to a number.  With checksum set and an
\* empty text the size wraps and the loop reads outside the text:
\* thrown is "undefined".
decode(codec, encoded, checksum) ==
    LET sz == IF checksum THEN Len(encoded) - 1 ELSE Len(encoded)
        sum0 == IF checksum
                THEN BitXor((sz \div codec.base) % codec.base, sz % codec.base)
                ELSE 0
        bp == IF codec.block_size # 0 THEN (sz * codec.block_size) % 8 ELSE 0
        Body(sum, num) ==
            IF checksum THEN DecodeChecksum(codec, encoded, [sum |-> sum, num |-> num])
            ELSE [thrown |-> "none", at |-> 0, num |-> num]
        \* 226-227: the padding bits are shifted out
        Shift(lp) ==
            IF lp.thrown # "none"
            THEN [thrown |-> lp.thrown, at |-> lp.at, ch |-> lp.ch, num |-> lp.num]
            ELSE Body(lp.sum, bitwise_rshift(lp.num, uint(bp)))
    IN  IF checksum /\ Len(encoded) = 0
        THEN [thrown |-> "undefined", at |-> 0, num |-> <<>>]
        ELSE Shift(DecodeLoop(codec, encoded, 1, sz, sz,
                              [thrown |-> "none", at |-> 0, sum |-> sum0, num |-> <<>>]))

\* src/base_x.hh:241-246, decode to a byte string
decode_bytes(codec, encoded, checksum) ==
    LET Number(n) ==
            IF n.thrown # "none" THEN [thrown |-> n.thrown, text |-> <<>>]
            ELSE [thrown |-> "none", text |-> str(n.num, 256).text]
    IN  Number(decode(codec, encoded, checksum))

\* the checksum is not looked at
is_valid_unsummed(codec, encoded, checksum) ==
    IF \E k \in 1..Len(encoded) : encoded[k] > 127 THEN "undefined"
    ELSE IF \E k \in 1..Len(encoded) : codec.ord[encoded[k]] >= codec.base
    THEN "false"
    ELSE "true"

\* the size term of the checksum is taken from the whole text
is_valid_whole_size(codec, encoded, checksum) ==
    LET sz == Len(encoded)
        sum0 == IF checksum
                THEN BitXor((sz \div codec.base) % codec.base, sz % codec.base)
                ELSE 0
        digits == [k \in 1..sz |-> codec.ord[encoded[k]]]
        Sum[k \in 0..sz] == IF k = 0 THEN sum0 ELSE BitXor(Sum[k - 1], digits[k])
    IN  IF \E k \in 1..sz : encoded[k] > 127 THEN "undefined"
        ELSE IF \E k \in 1..sz : digits[k] >= codec.base THEN "false"
        ELSE IF checksum /\ Sum[sz] # 0 THEN "false"
        ELSE "true"

\* 2^k modulo m
RECURSIVE Pow2Mod(_, _)
Pow2Mod(k, m) == IF k = 0 THEN 1 % m ELSE (2 * Pow2Mod(k - 1, m)) % m

\* src/base_x.hh:282: encoded_size - 1 in the 64 bits of std::size_t,
\* modulo m; the subtraction wraps for the empty text
SizeLessOne(encoded_size, m) ==
    IF encoded_size > 0 THEN (encoded_size - 1) % m
    ELSE (Pow2Mod(64, m) + m - 1) % m

\* src/base_x.hh:286-292: one pass of the loop, for the character at index
\* k.  A character above 127 indexes _ord with a negative int.
IsValidStep(codec, encoded, k, st) ==
    IF encoded[k] > 127 THEN [result |-> "undefined", sum |-> st.sum]
    ELSE IF codec.ord[encoded[k]] >= codec.base
    THEN [result |-> "false", sum |-> st.sum]
    ELSE [result |-> "true", sum |-> BitXor(st.sum, codec.ord[encoded[k]])]

\* src/base_x.hh:286-292: the passes for the characters lo..hi
RECURSIVE IsValidLoop(_, _, _, _, _)
IsValidLoop(codec, encoded, lo, hi, st) ==
    IF lo > hi \/ st.result # "true" THEN st
    ELSE IF lo = hi THEN IsValidStep(codec, encoded, lo, st)
    ELSE LET Upper(mid) ==
                 IsValidLoop(codec, encoded, mid + 1, hi,
                             IsValidLoop(codec, encoded, lo, mid, st))
         IN  Upper((lo + hi) \div 2)

\* src/base_x.hh:279-297, is_valid: "true", "false", or "undefined" where
\* the loop has read outside _ord
is_valid(codec, encoded, checksum) ==
    LET sz == SizeLessOne(Len(encoded), codec.base * codec.base)
        sum0 == IF checksum
                THEN BitXor((sz \div codec.base) % codec.base, sz % codec.base)
                ELSE 0
        End(st) == IF st.result = "true" /\ checksum /\ st.sum # 0 THEN "false"
                   ELSE st.result
    IN  End(IsValidLoop(codec, encoded, 1, Len(encoded),
                        [result |-> "true", sum |-> sum0]))

---------------------------------------------------------------------------
(* Operands.  Every specification below draws its operands from finite     *)
(* sets of digit sequences or byte strings built from a few sample values. *)

\* the sequences over S of length at most n, as tuples
RECURSIVE SeqsUpTo(_, _)
SeqsUpTo(S, n) ==
    IF n = 0 THEN {<<>>}
    ELSE LET shorter == SeqsUpTo(S, n - 1)
         IN  shorter \cup {Append(s, x) : s \in {t \in shorter : Len(t) = n - 1},
                                          x \in S}

\* the canonical ones among them
CanonicalUpTo(S, n) == {s \in SeqsUpTo(S, n) : canonical(s)}

---------------------------------------------------------------------------
(* SpecCodec: a bundled codec encodes a byte string or a number, then      *)
(* decodes the text it produced.                                           *)
(*   a = the input, b = the codec's name, c = [mode, checksum],            *)
(*   out = [enc, dec], what encode and decode returned or threw.           *)

CodecMaxBytes == 2
CodecMaxDigits == 2
CodecBytes == {0, 1, 65, 128, 255}
CodecDigits == {0, 1, 255, 256, 32768, 65535}
StaleHalfDigits == {0, 255}

NoCodecResult ==
    [enc |-> [thrown |-> "none", text |-> <<>>],
     dec |-> [thrown |-> "none", num |-> <<>>, text |-> <<>>]]

CodecInit ==
    /\ pc = "start"
    /\ b \in CodecNames
    /\ c \in [mode : {"bytes", "number"}, checksum : BOOLEAN]
    /\ a \in (IF c.mode = "bytes" THEN SeqsUpTo(CodecBytes, CodecMaxBytes)
              ELSE CanonicalUpTo(CodecDigits, CodecMaxDigits))
    /\ out = NoCodecResult

\* encode(bytes, size, checksum)
EncodeBytes ==
    /\ pc = "start" /\ c.mode = "bytes"
    /\ \E stale \in StaleHalfDigits :
          LET Store(e) ==
                  /\ out' = [out EXCEPT !.enc = e]
                  /\ pc' = IF e.thrown = "none" THEN "encoded" ELSE "thrown"
          IN  Store(encode_bytes(Codec(b), a, c.checksum, stale))
    /\ UNCHANGED <<a, b, c>>

\* encode(num, checksum)
EncodeNumber ==
    /\ pc = "start" /\ c.mode = "number"
    /\ \E stale \in StaleHalfDigits :
          out' = [out EXCEPT !.enc = [thrown |-> "none",
                                      text |-> encode(Codec(b), a, c.checksum, stale)]]
    /\ pc' = "encoded"
    /\ UNCHANGED <<a, b, c>>

\* decode<std::string>(encoded, checksum)
DecodeBytes ==
    /\ pc = "encoded" /\ c.mode = "bytes"
    /\ LET Store(d) ==
               out' = [out EXCEPT !.dec = [thrown |-> d.thrown, num |-> <<>>,
                                           text |-> d.text]]
       IN  Store(decode_bytes(Codec(b), out.enc.text, c.checksum))
    /\ pc' = "done"
    /\ UNCHANGED <<a, b, c>>

\* decode(result, encoded, checksum)
DecodeNumber ==
    /\ pc = "encoded" /\ c.mode = "number"
    /\ LET Store(d) ==
               out' = [out EXCEPT !.dec = [thrown |-> d.thrown, num |-> d.num,
                                           text |-> <<>>]]
       IN  Store(decode(Codec(b), out.enc.text, c.checksum))
    /\ pc' = "done"
    /\ UNCHANGED <<a, b, c>>

CodecNext == EncodeBytes \/ EncodeNumber \/ DecodeBytes \/ DecodeNumber

SpecCodec == CodecInit /\ [][CodecNext]_vars

\* C1: for every bundled codec and every byte string s, with the checksum
\* off, encode(s) produces a text and decoding that text to bytes gives s
\* back, the same bytes and the same length.
C1_ByteRoundTrip ==
    (c.mode = "bytes" /\ ~c.checksum) =>
        /\ pc # "thrown"
        /\ pc = "done" => (out.dec.thrown = "none" /\ out.dec.text = a)

---------------------------------------------------------------------------
(* SpecDiv: one division of a by b, in each of its public forms.           *)
(*   a = the dividend object, b = the divisor, c = the dividend before the *)
(*   call, out = [op, thrown, q, r]: the form called and what it returned; *)
(*   q and r start as the empty outputs a caller passes in.                *)

DivMaxDividend == 3
DivMaxDivisor == 2
DivDigits == {0, 1, 32768, 65535}

\* what the quotient and the remainder may hold after a native division by
\* zero that did not trap
DivGarbage == {<<>>, <<65535>>}

\* the divisors: canonical ones, and the one-digit zero that
\* uint_t("\0", 1, 256) constructs
DivDivisors == CanonicalUpTo(DivDigits, DivMaxDivisor) \cup {strtouint(<<0>>, 256).num}

\* the outcomes of divmod(quotient, remainder, lhs, rhs): the native
\* division by zero traps or leaves anything in the outputs
DivOutcomes(lhs, rhs) ==
    IF DivByNativeZero(lhs, rhs)
    THEN {[thrown |-> "trap", q |-> <<>>, r |-> <<>>]}
         \cup {[thrown |-> "none", q |-> g, r |-> h] : g \in DivGarbage, h \in DivGarbage}
    ELSE {divmod(lhs, rhs)}

DivInit ==
    /\ pc = "start"
    /\ a \in CanonicalUpTo(DivDigits, DivMaxDividend)
    /\ b \in DivDivisors
    /\ c = a
    /\ out = [op |-> "none", thrown |-> "none", q |-> <<>>, r |-> <<>>]

\* src/uint_t.hh:2008-2010 (and 1770-1775)
Divmod ==
    /\ pc = "start"
    /\ \E o \in DivOutcomes(a, b) :
          out' = [op |-> "divmod", thrown |-> o.thrown, q |-> o.q, r |-> o.r]
    /\ pc' = "done"
    /\ UNCHANGED <<a, b, c>>

\* src/uint_t.hh:2012-2014, operator/
Div ==
    /\ pc = "start"
    /\ \E o \in DivOutcomes(a, b) :
          out' = [op |-> "/", thrown |-> o.thrown, q |-> o.q, r |-> <<>>]
    /\ pc' = "done"
    /\ UNCHANGED <<a, b, c>>

\* src/uint_t.hh:2024-2026, operator%
Mod ==
    /\ pc = "start"
    /\ \E o \in DivOutcomes(a, b) :
          out' = [op |-> "%", thrown |-> o.thrown, q |-> <<>>, r |-> o.r]
    /\ pc' = "done"
    /\ UNCHANGED <<a, b, c>>

\* src/uint_t.hh:2016-2022, operator/=
DivAssign ==
    /\ pc = "start"
    /\ \E o \in DivOutcomes(a, b) :
          /\ out' = [op |-> "/=", thrown |-> o.thrown, q |-> o.q, r |-> <<>>]
          /\ a' = IF o.thrown = "none" THEN o.q ELSE a
    /\ pc' = "done"
    /\ UNCHANGED <<b, c>>

\* src/uint_t.hh:2028-2034, operator%=
ModAssign ==
    /\ pc = "start"
    /\ \E o \in DivOutcomes(a, b) :
          /\ out' = [op |-> "%=", thrown |-> o.thrown, q |-> <<>>, r |-> o.r]
          /\ a' = IF o.thrown = "none" THEN o.r ELSE a
    /\ pc' = "done"
    /\ UNCHANGED <<b, c>>

DivNext == Divmod \/ Div \/ Mod \/ DivAssign \/ ModAssign

SpecDiv == DivInit /\ [][DivNext]_vars

\* the value of s is 0: every digit of s is 0
IsZero(s) == \A i \in 1..Len(s) : s[i] = 0

\* C3: for canonical a and canonical b # 0, divmod(a, b) returns (q, r) with
\* q * b + r = a and r < b, on every path of divmod.
C3_DivmodIdentity ==
    (pc = "done" /\ out.op = "divmod" /\ canonical(b) /\ Len(b) # 0) =>
        /\ out.thrown = "none"
        /\ plus(mult(out.q, b), out.r) = c
        /\ compare(out.r, b) < 0

\* C10: divmod, /, %, /= and %= throw the division-by-zero error whenever the
\* value of the divisor is 0, whatever the dividend, and then the dividend
\* and the quotient and remainder outputs are as they were.
C10_DivByZero ==
    (pc = "done" /\ IsZero(b)) =>
        /\ out.thrown = "domain_error"
        /\ a = c
        /\ out.q = <<>> /\ out.r = <<>>

---------------------------------------------------------------------------
(* SpecMul: a * (b + c) and a * b + a * c, for operands below and above    *)
(* the Karatsuba cutoff.                                                   *)
(*   out = [left, right], the two results.                                 *)

MulMaxLen == 2
MulDigits == {0, 1, 65535}

\* n copies of the digit d
RECURSIVE Repeat(_, _)
Repeat(d, n) ==
    IF n = 0 THEN <<>>
    ELSE IF n = 1 THEN <<d>>
    ELSE Repeat(d, n \div 2) \o Repeat(d, n - n \div 2)

\* the least size that leaves long_mult
MulWide == karatsuba_cutoff + 1

MulSmall == CanonicalUpTo(MulDigits, MulMaxLen)

\* 2 * MulWide + 1 digits: the low MulWide of them are DigitMax, the top is 1
MulLopsided == Repeat(DigitMax, MulWide) \o Zeros(MulWide) \o <<1>>

MulInit ==
    /\ pc = "start"
    /\ a \in MulSmall \cup {Repeat(1, MulWide)}
    /\ b \in MulSmall \cup {Repeat(DigitMax, MulWide), MulLopsided}
    /\ c \in MulSmall \cup {Repeat(DigitMax, MulWide)}
    /\ out = [left |-> <<>>, right |-> <<>>]

\* a * (b + c): operator+ (src/uint_t.hh:1984-1986), then operator*
\* (src/uint_t.hh:2000-2002)
MultSum ==
    /\ pc = "start"
    /\ out' = [out EXCEPT !.left = mult(a, plus(b, c))]
    /\ pc' = "left"
    /\ UNCHANGED <<a, b, c>>

\* a * b + a * c
SumProducts ==
    /\ pc = "left"
    /\ out' = [out EXCEPT !.right = plus(mult(a, b), mult(a, c))]
    /\ pc' = "done"
    /\ UNCHANGED <<a, b, c>>

MulNext == MultSum \/ SumProducts

SpecMul == MulInit /\ [][MulNext]_vars

\* C4: a * (b + c) = a * b + a * c for all a, b, c, for operand sizes on both
\* sides of the Karatsuba cutoff.
C4_Distributive == pc = "done" => out.left = out.right

---------------------------------------------------------------------------
(* SpecAdd: the sums of a, b and c taken in both orders and both           *)
(* groupings.  out = [x, y], the two results compared.                     *)

AddMaxLen == 2
AddDigits == {0, 1, 65535}

AddInit ==
    /\ pc = "start"
    /\ a \in CanonicalUpTo(AddDigits, AddMaxLen)
    /\ b \in CanonicalUpTo(AddDigits, AddMaxLen)
    /\ c \in CanonicalUpTo(AddDigits, AddMaxLen)
    /\ out = [x |-> <<>>, y |-> <<>>]

\* a + b and b + a (operator+, src/uint_t.hh:1984-1986)
AddCommuted ==
    /\ pc = "start"
    /\ out' = [x |-> plus(a, b), y |-> plus(b, a)]
    /\ pc' = "commuted"
    /\ UNCHANGED <<a, b, c>>

\* (a + b) + c and a + (b + c)
AddAssociated ==
    /\ pc = "start"
    /\ out' = [x |-> plus(plus(a, b), c), y |-> plus(a, plus(b, c))]
    /\ pc' = "associated"
    /\ UNCHANGED <<a, b, c>>

AddNext == AddCommuted \/ AddAssociated

SpecAdd == AddInit /\ [][AddNext]_vars

\* C5: a + b = b + a and (a + b) + c = a + (b + c) for all a, b, c, also
\* when the carry leaves the most significant digit and appends a digit.
C5_AddCommutesAssociates ==
    /\ pc = "commuted" => (out.x = out.y /\ compare(out.x, out.y) = 0)
    /\ pc = "associated" => (out.x = out.y /\ compare(out.x, out.y) = 0)

\* C5, its case: the carry of (a + b) + c appended a digit
C5_Witness ==
    /\ pc = "associated"
    /\ Len(a) = AddMaxLen /\ Len(b) = 1 /\ Len(c) = 1
    /\ Len(out.x) = AddMaxLen + 1
    /\ out.x = out.y

---------------------------------------------------------------------------
(* SpecShift: a shifted left by n bits, and the result shifted right by n. *)
(*   c = the count n, b = the count as the uint_t the operators take,      *)
(*   out = [l, r]: a << n and (a << n) >> n.                               *)

ShiftMaxLen == 2
ShiftMaxCount == 40
ShiftDigits == {0, 1, 32768, 65535}

ShiftInit ==
    /\ pc = "start"
    /\ a \in CanonicalUpTo(ShiftDigits, ShiftMaxLen)
    /\ c \in 0..ShiftMaxCount
    /\ b = uint(c)
    /\ out = [l |-> <<>>, r |-> <<>>]

\* operator<<, src/uint_t.hh:1929-1931
Lshift ==
    /\ pc = "start"
    /\ out' = [out EXCEPT !.l = bitwise_lshift(a, b)]
    /\ pc' = "shifted"
    /\ UNCHANGED <<a, b, c>>

\* operator>>, src/uint_t.hh:1937-1939
Rshift ==
    /\ pc = "shifted"
    /\ out' = [out EXCEPT !.r = bitwise_rshift(out.l, b)]
    /\ pc' = "done"
    /\ UNCHANGED <<a, b, c>>

ShiftNext == Lshift \/ Rshift

SpecShift == ShiftInit /\ [][ShiftNext]_vars

\* C6: (a << n) >> n = a for every a and every count n >= 0, and the left
\* shift loses no high bit: a # 0 has n more bits after it.
C6_ShiftRoundTrip ==
    /\ (pc # "start" /\ Len(a) # 0) => bits(out.l) = bits(a) + c
    /\ (pc # "start" /\ Len(a) = 0) => out.l = <<>>
    /\ pc = "done" => out.r = a

\* C6, its case: the shift crossed a digit boundary and appended digits
C6_Witness ==
    /\ pc = "done"
    /\ c > digit_bits /\ c % digit_bits # 0
    /\ Len(a) = ShiftMaxLen /\ Len(out.l) = Len(a) + 2
    /\ out.r = a

---------------------------------------------------------------------------
(* SpecRadix: a formatted in base b by str, and the text parsed back in    *)
(* base b by the constructor from a string (strtouint).                    *)
(*   out = [fmt, parsed], what str and strtouint returned or threw.        *)

RadixMaxLen == 2
RadixDigits == {0, 1, 256, 65535}
RadixBases == {2, 8, 10, 16, 32, 36, 58, 62, 64, 66, 256}

RadixInit ==
    /\ pc = "start"
    /\ a \in CanonicalUpTo(RadixDigits, RadixMaxLen)
    /\ b \in RadixBases
    /\ c = <<>>
    /\ out = [fmt |-> [thrown |-> "none", text |-> <<>>],
              parsed |-> [thrown |-> "none", num |-> <<>>]]

\* str(base), src/uint_t.hh:2089-2150
Format ==
    /\ pc = "start"
    /\ LET Store(f) ==
               /\ out' = [out EXCEPT !.fmt = f]
               /\ pc' = IF f.thrown = "none" THEN "formatted" ELSE "thrown"
       IN  Store(str(a, b))
    /\ UNCHANGED <<a, b, c>>

\* uint_t(bytes, sz, base), src/uint_t.hh:1834-1835
Parse ==
    /\ pc = "formatted"
    /\ LET Store(n) ==
               /\ out' = [out EXCEPT !.parsed = n]
               /\ pc' = IF n.thrown = "none" THEN "done" ELSE "thrown"
       IN  Store(strtouint(out.fmt.text, b))
    /\ UNCHANGED <<a, b, c>>

RadixNext == Format \/ Parse

SpecRadix == RadixInit /\ [][RadixNext]_vars

\* C7: for every base B of 2, 8, 10, 16, 32, 36, 58, 62, 64, 66, 256 and
\* every a, 0 included, the text str(a, B) parsed in base B compares equal
\* to a.
C7_RadixRoundTrip ==
    /\ pc # "thrown"
    /\ pc = "done" => compare(out.parsed.num, a) = 0

---------------------------------------------------------------------------
(* SpecCmp: compare(a, b) and the six comparison operators, for canonical  *)
(* operands whose values fit a TLC integer.                                *)
(*   out = [cmp, eq, ne, lt, le, gt, ge].                                  *)

CmpMaxLen == 2
CmpDigits == {0, 1, 32767, 32768, 65535}

\* the value of s is below 2^31
CmpFits(s) == Len(s) < 2 \/ (Len(s) = 2 /\ s[2] < 32768)

CmpOperands == {s \in CanonicalUpTo(CmpDigits, CmpMaxLen) : CmpFits(s)}

Sign(n) == IF n > 0 THEN 1 ELSE IF n < 0 THEN -1 ELSE 0

CmpInit ==
    /\ pc = "start"
    /\ a \in CmpOperands
    /\ b \in CmpOperands
    /\ c = <<>>
    /\ out = [cmp |-> 0, eq |-> FALSE, ne |-> FALSE, lt |-> FALSE, le |-> FALSE,
              gt |-> FALSE, ge |-> FALSE]

\* compare(a, b), src/uint_t.hh:1191-1205
Compare ==
    /\ pc = "start"
    /\ out' = [out EXCEPT !.cmp = compare(a, b)]
    /\ pc' = "compared"
    /\ UNCHANGED <<a, b, c>>

\* a == b, a != b, a < b, a <= b, a > b, a >= b, src/uint_t.hh:1958-1981
Relate ==
    /\ pc = "compared"
    /\ out' = [out EXCEPT !.eq = operator_eq(a, b), !.ne = operator_ne(a, b),
                          !.lt = operator_lt(a, b), !.le = operator_le(a, b),
                          !.gt = operator_gt(a, b), !.ge = operator_ge(a, b)]
    /\ pc' = "done"
    /\ UNCHANGED <<a, b, c>>

CmpNext == Compare \/ Relate

SpecCmp == CmpInit /\ [][CmpNext]_vars

\* C9: for canonical a and b, compare(a, b) is -1, 0 or +1 as the value of a
\* is below, equal to or above the value of b, and ==, !=, <, <=, >, >=
\* agree with it.
C9_CompareIsNumericOrder ==
    /\ pc # "start" => out.cmp = Sign(NatOf(a) - NatOf(b))
    /\ pc = "done" =>
          /\ out.eq = (NatOf(a) = NatOf(b)) /\ out.ne = (NatOf(a) # NatOf(b))
          /\ out.lt = (NatOf(a) < NatOf(b)) /\ out.le = (NatOf(a) <= NatOf(b))
          /\ out.gt = (NatOf(a) > NatOf(b)) /\ out.ge = (NatOf(a) >= NatOf(b))

\* C9, its case: two-digit operands with the same top digit, told apart by
\* the low digit
C9_Witness ==
    /\ pc = "done"
    /\ Len(a) = 2 /\ Len(b) = 2 /\ a[2] = b[2] /\ a[1] < b[1]
    /\ out.cmp = -1 /\ out.lt /\ out.le /\ out.ne /\ ~out.eq /\ ~out.gt /\ ~out.ge

---------------------------------------------------------------------------
(* Canonical form (C8): sequences of constructors and operators on two     *)
(* objects.                                                                *)
(*   a = the object x, b = the object y, c = the calls made so far,        *)
(*   out = [op, thrown]: the last call and what it threw,                  *)
(*   pc = "run", or "trapped" after a native division by zero.             *)
(* Both objects start default-constructed (src/uint_t.hh:1787-1791).  The  *)
(* value-returning forms are followed by the assignment of their result to *)
(* x.  operator<<= and operator>>= move the window of x inside its vector  *)
(* (src/uint_t.hh:1010, 1113); the digits before the window are not part   *)
(* of this state, so the shifts appear in their value-returning form.      *)

CanonMaxSteps == 3
CanonMaxShift == 17
CanonInts == {0, 1, 17, 65535}
CanonBuffers == {<<0>>, <<1>>, <<0, 0>>, <<1, 0>>, <<255, 255>>}

\* the digit strings "0", "00", "9", "65536" in base 10, "ff" in base 16,
\* and "z", which is no digit of base 10
CanonTexts ==
    {[text |-> <<48>>, base |-> 10], [text |-> <<48, 48>>, base |-> 10],
     [text |-> <<57>>, base |-> 10], [text |-> <<54, 53, 53, 51, 54>>, base |-> 10],
     [text |-> <<102, 102>>, base |-> 16], [text |-> <<122>>, base |-> 10]}

CanonInit ==
    /\ pc = "run"
    /\ a = <<>>
    /\ b = <<>>
    /\ c = 0
    /\ out = [op |-> "uint_t()", thrown |-> "none"]

\* a call that leaves x in x and y in y
CanonCall(op, thrown, x, y) ==
    /\ pc = "run"
    /\ c < CanonMaxSteps
    /\ a' = x
    /\ b' = y
    /\ c' = c + 1
    /\ out' = [op |-> op, thrown |-> thrown]
    /\ pc' = IF thrown = "trap" THEN "trapped" ELSE "run"

\* uint_t(const T& value), src/uint_t.hh:1808-1817, into x or into y
CanonFromInt ==
    \E n \in CanonInts :
       \/ CanonCall("x = uint_t(int)", "none", uint(n), b)
       \/ CanonCall("y = uint_t(int)", "none", a, uint(n))

\* uint_t(bytes, sz, base) on a digit string, src/uint_t.hh:1834-1835; the
\* object keeps its value when the constructor throws
CanonFromString ==
    \E t \in CanonTexts :
       LET Store(n) ==
               \/ CanonCall("x = uint_t(text)", n.thrown,
                            IF n.thrown = "none" THEN n.num ELSE a, b)
               \/ CanonCall("y = uint_t(text)", n.thrown,
                            a, IF n.thrown = "none" THEN n.num ELSE b)
       IN  Store(strtouint(t.text, t.base))

\* uint_t(bytes, sz, 256) on a byte buffer, src/uint_t.hh:1834-1835
CanonFromBytes ==
    \E t \in CanonBuffers :
       LET Store(n) ==
               \/ CanonCall("x = uint_t(bytes)", "none", n.num, b)
               \/ CanonCall("y = uint_t(bytes)", "none", a, n.num)
       IN  Store(strtouint(t, 256))

\* operator=, src/uint_t.hh:1845-1850
CanonAssign == CanonCall("x = y", "none", b, b)

\* operator+ and operator+=, src/uint_t.hh:1984-1990
CanonAdd == CanonCall("+", "none", plus(a, b), b)
CanonAddAssign == CanonCall("+=", "none", plus(a, b), b)

\* operator- and operator-=, src/uint_t.hh:1992-1998
CanonSub == CanonCall("-", "none", minus(a, b), b)
CanonSubAssign == CanonCall("-=", "none", minus(a, b), b)

\* operator* and operator*=, src/uint_t.hh:2000-2006
CanonMul == CanonCall("*", "none", mult(a, b), b)
CanonMulAssign == CanonCall("*=", "none", mult(a, b), b)

\* operator/ and operator/=, src/uint_t.hh:2012-2022
CanonDiv ==
    \E o \in DivOutcomes(a, b) :
       CanonCall("/", o.thrown, IF o.thrown = "none" THEN o.q ELSE a, b)
CanonDivAssign ==
    \E o \in DivOutcomes(a, b) :
       CanonCall("/=", o.thrown, IF o.thrown = "none" THEN o.q ELSE a, b)

\* operator% and operator%=, src/uint_t.hh:2024-2034
CanonMod ==
    \E o \in DivOutcomes(a, b) :
       CanonCall("%", o.thrown, IF o.thrown = "none" THEN o.r ELSE a, b)
CanonModAssign ==
    \E o \in DivOutcomes(a, b) :
       CanonCall("%=", o.thrown, IF o.thrown = "none" THEN o.r ELSE a, b)

\* operator& and operator&=, src/uint_t.hh:1896-1902
CanonAnd == CanonCall("&", "none", bitwise_and(a, b), b)
CanonAndAssign == CanonCall("&=", "none", bitwise_and(a, b), b)

\* operator| and operator|=, src/uint_t.hh:1904-1910
CanonOr == CanonCall("|", "none", bitwise_or(a, b), b)
CanonOrAssign == CanonCall("|=", "none", bitwise_or(a, b), b)

\* operator^ and operator^=, src/uint_t.hh:1912-1918
CanonXor == CanonCall("^", "none", bitwise_xor(a, b), b)
CanonXorAssign == CanonCall("^=", "none", bitwise_xor(a, b), b)

\* operator~, src/uint_t.hh:1920-1922, and inv(), src/uint_t.hh:1924-1926
CanonNot == CanonCall("~", "none", bitwise_inv(a), b)
CanonInv == CanonCall("inv()", "none", bitwise_inv_inplace(a), b)

\* operator<< and operator>>, src/uint_t.hh:1929-1931 and 1937-1939; the
\* left shifts explored are those by at most CanonMaxShift bits
CanonLshift ==
    /\ Len(b) <= 1 /\ to_size_t(b) <= CanonMaxShift
    /\ CanonCall("<<", "none", bitwise_lshift(a, b), b)
CanonRshift == CanonCall(">>", "none", bitwise_rshift(a, b), b)

\* operator++ and operator--, src/uint_t.hh:2037-2054
CanonInc == CanonCall("++", "none", plus(a, uint(1)), b)
CanonDec == CanonCall("--", "none", minus(a, uint(1)), b)

CanonNext ==
    \/ CanonFromInt \/ CanonFromString \/ CanonFromBytes \/ CanonAssign
    \/ CanonAdd \/ CanonAddAssign \/ CanonSub \/ CanonSubAssign
    \/ CanonMul \/ CanonMulAssign
    \/ CanonDiv \/ CanonDivAssign \/ CanonMod \/ CanonModAssign
    \/ CanonAnd \/ CanonAndAssign \/ CanonOr \/ CanonOrAssign
    \/ CanonXor \/ CanonXorAssign \/ CanonNot \/ CanonInv
    \/ CanonLshift \/ CanonRshift \/ CanonInc \/ CanonDec

SpecCanon == CanonInit /\ [][CanonNext]_vars

\* C8: after any sequence of constructors (host integers, digit strings,
\* byte buffers in base 256) and operators, every object has a non-zero
\* most-significant digit, and an object of value 0 is the empty digit
\* sequence: its size is 0, bits() is 0 and it converts to false.
C8_CanonicalForm ==
    /\ canonical(a) /\ canonical(b)
    /\ \A s \in {a, b} : IsZero(s) => Len(s) = 0 /\ bits(s) = 0

---------------------------------------------------------------------------
(* SpecIgnored: a codec with ignored characters decodes a text, and the    *)
(* same text with ignored characters inserted into it.                     *)
(*   a = the text e, b = the codec's name, c = e with the insertions,      *)
(*   out = [plain, spaced], what decode returned for a and for c.          *)

IgnoredMaxLen == 2
IgnoredMaxInserted == 2

\* the bundled codecs built with a non-empty ignored set
IgnoredCodecs ==
    {"base16_rfc4648", "base32_rfc4648", "base32_rfc4648hex",
     "base64_rfc4648", "base64_rfc4648url"}

\* sample characters of a codec's alphabet: its first two and its last
SampleChars(codec) ==
    {codec.alphabet[1], codec.alphabet[2], codec.alphabet[codec.base]}

\* the non-empty texts of at most n sample characters
SampleTexts(codec, n) == SeqsUpTo(SampleChars(codec), n) \ {<<>>}

\* text with the character ch put in before position k (1-based)
Inserted(text, k, ch) ==
    SubSeq(text, 1, k - 1) \o <<ch>> \o SubSeq(text, k, Len(text))

NoDecodeResult == [thrown |-> "none", at |-> 0, num |-> <<>>]

IgnoredInit ==
    /\ pc = "start"
    /\ b \in IgnoredCodecs
    /\ a \in SampleTexts(Codec(b), IgnoredMaxLen)
    /\ c = a
    /\ out = [plain |-> NoDecodeResult, spaced |-> NoDecodeResult]

\* the caller puts one more ignored character into the text
InsertIgnored ==
    /\ pc = "start" /\ Len(c) < Len(a) + IgnoredMaxInserted
    /\ \E k \in 1..(Len(c) + 1), i \in 1..Len(Ignored_rfc4648) :
          c' = Inserted(c, k, Ignored_rfc4648[i])
    /\ UNCHANGED <<pc, a, b, out>>

\* decode(result, encoded, encoded_size) of both texts
DecodeSpaced ==
    /\ pc = "start"
    /\ LET Store(p, q) == out' = [plain |-> p, spaced |-> q]
       IN  Store(decode(Codec(b), a, FALSE), decode(Codec(b), c, FALSE))
    /\ pc' = "done"
    /\ UNCHANGED <<a, b, c>>

IgnoredNext == InsertIgnored \/ DecodeSpaced

SpecIgnored == IgnoredInit /\ [][IgnoredNext]_vars

\* C11: for a codec with ignored characters and a valid text e, e with
\* ignored characters inserted anywhere decodes without error to the value
\* e decodes to.
C11_IgnoredAddNoDigits ==
    (pc = "done" /\ out.plain.thrown = "none") =>
        (out.spaced.thrown = "none" /\ out.spaced.num = out.plain.num)

---------------------------------------------------------------------------
(* SpecCase: an IGNORE_CASE codec decodes a text, its upper-case form and  *)
(* its lower-case form.                                                    *)
(*   a = the text e, b = the codec's name, c = unused,                     *)
(*   out = [plain, upper, lower], what decode returned for the three.      *)

CaseMaxLen == 2

\* the bundled codecs built with IGNORE_CASE
BundledCaseCodecs ==
    {"base11", "base16", "base16_rfc4648", "base32", "base32_hex",
     "base32_rfc4648", "base32_rfc4648hex", "base32_crockford", "base36"}

\* a caller's own IGNORE_CASE codec, whose ignored set holds the letter x
CaseCodecs == BundledCaseCodecs \cup {"ignored_letter"}

\* the ignored set each of these codecs is built with
CaseIgnored(name) ==
    IF name = "ignored_letter" THEN <<120>>
    ELSE IF name \in IgnoredCodecs THEN Ignored_rfc4648
    ELSE <<>>

CaseCodec(name) ==
    IF name = "ignored_letter" THEN BaseX(<<48, 49>>, <<120>>, IGNORE_CASE)
    ELSE Codec(name)

IsLetter(ch) == (ch >= 65 /\ ch <= 90) \/ (ch >= 97 /\ ch <= 122)

\* toupper and tolower of the C locale
toupper(ch) == IF ch >= 97 /\ ch <= 122 THEN ch - 32 ELSE ch

tolower(ch) == IF ch >= 65 /\ ch <= 90 THEN ch + 32 ELSE ch

upper(text) == [k \in 1..Len(text) |-> toupper(text[k])]

lower(text) == [k \in 1..Len(text) |-> tolower(text[k])]

\* sample characters in both cases: the alphabet's first two, its 11th (a
\* letter wherever there are 11), its last, and the first ignored character
CaseSampleChars(name) ==
    LET codec == CaseCodec(name)
        picked == SampleChars(codec)
                  \cup (IF codec.base >= 11 THEN {codec.alphabet[11]} ELSE {})
                  \cup (IF CaseIgnored(name) # <<>> THEN {CaseIgnored(name)[1]} ELSE {})
    IN  picked \cup {toupper(ch) : ch \in picked} \cup {tolower(ch) : ch \in picked}

CaseInit ==
    /\ pc = "start"
    /\ b \in CaseCodecs
    /\ a \in SeqsUpTo(CaseSampleChars(b), CaseMaxLen) \ {<<>>}
    /\ c = <<>>
    /\ out = [plain |-> NoDecodeResult, upper |-> NoDecodeResult,
              lower |-> NoDecodeResult]

\* decode(result, encoded, encoded_size) of the text as given
DecodeGiven ==
    /\ pc = "start"
    /\ LET Store(r) == out' = [out EXCEPT !.plain = r]
       IN  Store(decode(CaseCodec(b), a, FALSE))
    /\ pc' = "plain"
    /\ UNCHANGED <<a, b, c>>

\* decode of the text in upper case
DecodeUpper ==
    /\ pc = "plain"
    /\ LET Store(r) == out' = [out EXCEPT !.upper = r]
       IN  Store(decode(CaseCodec(b), upper(a), FALSE))
    /\ pc' = "upper"
    /\ UNCHANGED <<a, b, c>>

\* decode of the text in lower case
DecodeLower ==
    /\ pc = "upper"
    /\ LET Store(r) == out' = [out EXCEPT !.lower = r]
       IN  Store(decode(CaseCodec(b), lower(a), FALSE))
    /\ pc' = "done"
    /\ UNCHANGED <<a, b, c>>

CaseNext == DecodeGiven \/ DecodeUpper \/ DecodeLower

SpecCase == CaseInit /\ [][CaseNext]_vars

\* the three decodes finished alike
CaseBlind ==
    /\ out.upper.thrown = "none" /\ out.upper.num = out.plain.num
    /\ out.lower.thrown = "none" /\ out.lower.num = out.plain.num

\* C12: for an IGNORE_CASE codec whose ignored set holds no letter (every
\* bundled one) and a valid text e, decode(upper(e)), decode(lower(e)) and
\* decode(e) succeed with the same value.
C12_CaseInsensitive ==
    (/\ pc = "done" /\ out.plain.thrown = "none"
     /\ \A k \in 1..Len(CaseIgnored(b)) : ~IsLetter(CaseIgnored(b)[k]))
        => CaseBlind

\* C12 as stated, for every codec built with IGNORE_CASE: a valid text
\* decodes to one value in upper case, in lower case and as given.
C12_CaseInsensitive_EveryCodec ==
    (pc = "done" /\ out.plain.thrown = "none") => CaseBlind

\* a bundled codec has decoded a valid two-letter text of mixed case to a
\* non-zero value, three times
C12_Witness ==
    /\ pc = "done" /\ b \in BundledCaseCodecs /\ out.plain.thrown = "none"
    /\ Len(a) = 2 /\ a # upper(a) /\ a # lower(a)
    /\ ~IsZero(out.plain.num) /\ CaseBlind

---------------------------------------------------------------------------
(* SpecChecksum: a codec encodes a number with the checksum character, the *)
(* caller may replace one character of the text, and the text is validated *)
(* and decoded.                                                            *)
(*   a = the number n (<<>>: the text was not encoded from a number),      *)
(*   b = the codec's name,                                                 *)
(*   c = [text, k, old, flag]: the text, the position and the character    *)
(*       replaced (k = 0: none), the checksum flag of the two reads,       *)
(*   out = [valid, dec], what is_valid and decode returned.                *)

ChecksumMaxDigits == 1
ChecksumMaxText == 2
ChecksumDigits == {1, 115, 175, 65535}

\* the characters a caller writes in place of ch: NUL, space, DEL, one byte
\* above the 7-bit ones, the codec's sample characters in both cases and
\* ch in the other case
ReplacementChars(name, ch) ==
    {0, 32, 127, 128} \cup CaseSampleChars(name) \cup {toupper(ch), tolower(ch)}

\* either a number to encode, or (a = <<>>) a text the caller brings
ChecksumInit ==
    /\ b \in CodecNames
    /\ \/ /\ pc = "start"
          /\ a \in CanonicalUpTo(ChecksumDigits, ChecksumMaxDigits) \ {<<>>}
          /\ c = [text |-> <<>>, k |-> 0, old |-> 0, flag |-> TRUE]
       \/ /\ pc = "encoded"
          /\ a = <<>>
          /\ c \in [text : SeqsUpTo(CaseSampleChars(b), ChecksumMaxText) \ {<<>>},
                    k : {0}, old : {0}, flag : {TRUE}]
    /\ out = [valid |-> "", dec |-> NoDecodeResult]

\* encode(num, true)
EncodeChecked ==
    /\ pc = "start"
    /\ \E stale \in StaleHalfDigits :
          c' = [c EXCEPT !.text = encode(Codec(b), a, TRUE, stale)]
    /\ pc' = "encoded"
    /\ UNCHANGED <<a, b, out>>

\* the caller replaces the character at position k by a different one
ReplaceChar ==
    /\ pc = "encoded"
    /\ \E k \in 1..Len(c.text) :
       \E ch \in ReplacementChars(b, c.text[k]) :
          /\ ch # c.text[k]
          /\ c' = [c EXCEPT !.text[k] = ch, !.k = k, !.old = c.text[k]]
    /\ pc' = "replaced"
    /\ UNCHANGED <<a, b, out>>

\* is_valid(encoded, size, flag)
IsValid ==
    /\ pc \in {"encoded", "replaced"}
    /\ \E flag \in BOOLEAN :
          /\ c' = [c EXCEPT !.flag = flag]
          /\ out' = [out EXCEPT !.valid = is_valid(Codec(b), c.text, flag)]
    /\ pc' = "validated"
    /\ UNCHANGED <<a, b>>

\* decode(result, encoded, size, flag)
DecodeChecked ==
    /\ pc = "validated"
    /\ LET Store(d) == out' = [out EXCEPT !.dec = d]
       IN  Store(decode(Codec(b), c.text, c.flag))
    /\ pc' = "done"
    /\ UNCHANGED <<a, b, c>>

ChecksumNext == EncodeChecked \/ ReplaceChar \/ IsValid \/ DecodeChecked

SpecChecksum == ChecksumInit /\ [][ChecksumNext]_vars

\* the digit the codec reads the 7-bit character ch as; 255 where none
ChecksumOrd(ch) == Codec(b).ord[ch]

C14_CheckedRoundTrip ==
    (/\ pc = "done" /\ a # <<>> /\ c.k = 0 /\ c.flag
     /\ Codec(b).block_size = 0)
        => /\ out.valid = "true"
           /\ out.dec.thrown = "none" /\ out.dec.num = a

\* C15: for every non-empty text and either value of the flag, is_valid is
\* true exactly where decode completes without an error; the two read
\* outside _ord on the same texts.
C15_IsValidAgreesWithDecode ==
    pc = "done" =>
        /\ (out.valid = "true") <=> (out.dec.thrown = "none")
        /\ (out.valid = "undefined") <=> (out.dec.thrown = "undefined")

\* a text of valid characters whose checksum is wrong: is_valid said no and
\* decode raised the checksum error
C15_Witness ==
    /\ pc = "done" /\ c.flag /\ Len(c.text) > 1
    /\ out.valid = "false" /\ out.dec.thrown = "invalid_checksum"

---------------------------------------------------------------------------
(* SpecReject: a text that may hold a character outside the alphabet is    *)
(* decoded by a codec or parsed by strtouint.                              *)
(*   a = the text, b = [kind, codec, checksum] or [kind, base]: the reader,*)
(*   c = unused, out = what the reader returned or threw.                  *)

RejectMaxLen == 3

\* the bases a string is parsed in
RejectBases == {2, 10, 16, 36}

RejectReaders ==
    [kind : {"decode"}, codec : CodecNames, checksum : BOOLEAN]
        \cup [kind : {"strtouint"}, base : RejectBases]

\* the characters of the texts: two the reader accepts and '@' (64), which
\* is in no alphabet
RejectChars(reader) ==
    IF reader.kind = "decode"
    THEN {Codec(reader.codec).alphabet[1],
          Codec(reader.codec).alphabet[Codec(reader.codec).base], 64}
    ELSE {48, 49, 64}

RejectInit ==
    /\ pc = "start"
    /\ b \in RejectReaders
    /\ a \in SeqsUpTo(RejectChars(b), RejectMaxLen) \ {<<>>}
    /\ c = <<>>
    /\ out = NoDecodeResult

\* decode(result, encoded, encoded_size, checksum)
DecodeRejecting ==
    /\ pc = "start" /\ b.kind = "decode"
    /\ LET Store(d) == out' = d
       IN  Store(decode(Codec(b.codec), a, b.checksum))
    /\ pc' = "done"
    /\ UNCHANGED <<a, b, c>>

\* uint_t(encoded, encoded_size, base)
ParseRejecting ==
    /\ pc = "start" /\ b.kind = "strtouint"
    /\ LET Store(n) == out' = n
       IN  Store(strtouint(a, b.base))
    /\ pc' = "done"
    /\ UNCHANGED <<a, b, c>>

RejectNext == DecodeRejecting \/ ParseRejecting

SpecReject == RejectInit /\ [][RejectNext]_vars

\* the reader has no digit for the character at index k (1-based) of a
RejectedBy(k) ==
    IF b.kind = "decode" THEN Codec(b.codec).ord[a[k]] >= Codec(b.codec).base
    ELSE ord(a[k]) >= b.base

\* C16: when decode or strtouint rejects a character, the error names that
\* character and its zero-based index in the input.
C16_ErrorNamesCharAndIndex ==
    (pc = "done" /\ out.thrown \in {"invalid_argument", "runtime_error"}) =>
        \E k \in 1..Len(a) :
            /\ RejectedBy(k) /\ \A j \in 1..(k - 1) : ~RejectedBy(j)
            /\ out.ch = a[k]
            /\ out.at = k - 1

---------------------------------------------------------------------------
(* SpecBuild: a caller constructs a codec of its own and encodes a number  *)
(* with it.                                                                *)
(*   a = the alphabet, b = the number encoded, c = [ignored, flags],       *)
(*   out = [thrown, codec, text]: what the constructor threw, the codec it *)
(*         produced, and the text encode wrote.                            *)

BuildMaxAlphabet == 3
BuildMaxIgnored == 1

\* the characters '0', '1' and 'a'
BuildChars == {48, 49, 97}

BuildInit ==
    /\ pc = "start"
    /\ a \in {s \in SeqsUpTo(BuildChars, BuildMaxAlphabet) : Len(s) >= 2}
    /\ b \in {uint(1), uint(2), uint(5)}
    /\ c \in [ignored : SeqsUpTo({48, 61}, BuildMaxIgnored),
              flags : {0, IGNORE_CASE}]
    /\ out = [thrown |-> "none", codec |-> <<>>, text |-> <<>>]

\* BaseX(alphabet, ignored, flags): the constructor has no throw
Construct ==
    /\ pc = "start"
    /\ out' = [out EXCEPT !.codec = BaseX(a, c.ignored, c.flags)]
    /\ pc' = "built"
    /\ UNCHANGED <<a, b, c>>

\* encode(num) by the codec built
EncodeBuilt ==
    /\ pc = "built"
    /\ \E stale \in StaleHalfDigits :
          out' = [out EXCEPT !.text = encode(out.codec, b, FALSE, stale)]
    /\ pc' = "encoded"
    /\ UNCHANGED <<a, b, c>>

BuildNext == Construct \/ EncodeBuilt

SpecBuild == BuildInit /\ [][BuildNext]_vars

\* the alphabet holds a character twice, or one of the ignored characters
BadTables ==
    \/ \E i, j \in 1..Len(a) : i # j /\ a[i] = a[j]
    \/ \E i \in 1..Len(a), j \in 1..Len(c.ignored) : a[i] = c.ignored[j]

\* C17: an alphabet that holds a character twice, or a character of the
\* ignored set, is rejected by the constructor: no codec is produced
\* from it.
C17_BadTablesRejected ==
    (pc # "start" /\ BadTables) => out.thrown # "none"

---------------------------------------------------------------------------
(* SpecZero: a caller makes the integer 0 and a codec encodes it.          *)
(*   a = the number, b = the codec's name, c = the checksum flag,          *)
(*   out = the text encode wrote.                                          *)

ZeroMaxBytes == 3

ZeroInit ==
    /\ pc = "start"
    /\ a = <<>>
    /\ b \in CodecNames
    /\ c \in BOOLEAN
    /\ out = <<>>

\* uint_t(0)
ZeroFromInt ==
    /\ pc = "start"
    /\ a' = uint(0)
    /\ pc' = "made"
    /\ UNCHANGED <<b, c, out>>

\* uint_t(bytes, size, 256) of zero bytes
ZeroFromBytes ==
    /\ pc = "start"
    /\ \E n \in 1..ZeroMaxBytes :
          a' = strtouint([k \in 1..n |-> 0], 256).num
    /\ pc' = "made"
    /\ UNCHANGED <<b, c, out>>

\* encode(num, checksum)
EncodeZero ==
    /\ pc = "made"
    /\ \E stale \in StaleHalfDigits : out' = encode(Codec(b), a, c, stale)
    /\ pc' = "done"
    /\ UNCHANGED <<a, b, c>>

ZeroNext == ZeroFromInt \/ ZeroFromBytes \/ EncodeZero

SpecZero == ZeroInit /\ [][ZeroNext]_vars

\* C18: for every codec and either value of the checksum flag, encode of
\* the integer 0 is the one character chr[0], with no checksum character
\* after it.
C18_ZeroIsChrZero ==
    pc = "done" => out = <<BaseX_chr(Codec(b), 0)>>

---------------------------------------------------------------------------
(* SpecNot: the complement of a number, by operator~ and by inv().         *)
(*   a = the operand, b and c = unused,                                    *)
(*   out = [value, inplace]: what ~a returned and what a.inv() left in the *)
(*         object ("none" before the call).                                *)

NotMaxLen == 2
NotDigits == {0, 1, 5, 255, 32768, 65535}

NotInit ==
    /\ pc = "start"
    /\ a \in CanonicalUpTo(NotDigits, NotMaxLen)
    /\ b = <<>> /\ c = <<>>
    /\ out = [value |-> "none", inplace |-> "none"]

\* operator~, src/uint_t.hh:1920-1922
Not ==
    /\ out.value = "none"
    /\ out' = [out EXCEPT !.value = bitwise_inv(a)]
    /\ pc' = "called"
    /\ UNCHANGED <<a, b, c>>

\* inv() on a copy of the operand, src/uint_t.hh:1924-1926
Inv ==
    /\ out.inplace = "none"
    /\ out' = [out EXCEPT !.inplace = bitwise_inv_inplace(a)]
    /\ pc' = "called"
    /\ UNCHANGED <<a, b, c>>

NotNext == Not \/ Inv

SpecNot == NotInit /\ [][NotNext]_vars

\* 2^n - 1 as a number: n one bits
AllOnes(n) ==
    [i \in 1..((n + digit_bits - 1) \div digit_bits) |->
        IF i * digit_bits <= n THEN DigitMax ELSE Pow2(n % digit_bits) - 1]

\* C19: with b = bits(a) > 0, ~a is (2^b - 1) - a; NOT of 0 is 0; operator~
\* and inv() give the same result for every a.
C19_NotOverOwnBits ==
    (out.value # "none" /\ out.inplace # "none") =>
        /\ bits(a) > 0 =>
              /\ canonical(out.value)
              /\ plus(out.value, a) = AllOnes(bits(a))
        /\ bits(a) = 0 => out.value = <<>>
        /\ out.value = out.inplace

---------------------------------------------------------------------------
(* SpecCopy: two objects x and y, each a window (_begin) on the vector its *)
(* _value refers to.  x is shifted in place, y = x is run, and both are    *)
(* shifted in place afterwards.                                            *)
(*   a = [x, y], each object [ref, begin]: the vector _value refers to     *)
(*       and _begin (_end is 0 in every object a caller can hold),         *)
(*   c = the vectors, by the object whose _value_instance each is,         *)
(*   b = [last, kept, begin]: the last operation ("x", "y": an in-place    *)
(*       operation on that object; "assign": y = x), the value it must     *)
(*       have kept, and x._begin when y = x ran,                           *)
(*   out = the number of operations run.                                   *)

CopyMaxSteps == 3
CopyMaxSurplus == 1
CopyDigits == {1, 32768, 65535}
CopyMaxLen == 2

\* the shift counts: a bit, a digit, more than a digit
CopyShifts == {1, digit_bits, digit_bits + 1}

\* src/uint_t.hh:185-187 and 230-244, begin() to end() with _end = 0: the
\* digits the object shows
Window(begin, vec) == SubSeq(vec, begin + 1, Len(vec))

\* y = x leaves y looking at the vector of x
operator_assign_shared(self, o, vectors) ==
    [obj |-> [ref |-> o.ref, begin |-> o.begin], vectors |-> vectors]

\* src/uint_t.hh:1845-1851, operator=(const uint_t&): _begin is cleared
\* before o.begin() is read, which shows where o is the object itself
operator_assign(self, o, vectors) ==
    [obj |-> [ref |-> self.ref, begin |-> 0],
     vectors |-> [vectors EXCEPT ![self.ref] =
                     Window(IF o.ref = self.ref THEN 0 ELSE o.begin,
                            vectors[o.ref])]]

\* src/uint_t.hh:646-659 on a window: the vector is cut above the
\* window's last non-zero digit
TrimWindow(begin, vec) == SubSeq(vec, 1, begin) \o trim(Window(begin, vec), 0)

\* src/uint_t.hh:1092-1128, operator>>=: [begin, vec] afterwards
bitwise_rshift_inplace(begin, vec, rhs) ==
    LET Bits(nb, shift) ==
            LET w == Window(nb, vec)
            IN  IF shift = 0 THEN [begin |-> nb, vec |-> vec]
                ELSE [begin |-> nb,
                      vec |-> TrimWindow(nb,
                          SubSeq(vec, 1, nb)
                          \o [i \in 1..Len(w) |->
                                 BitOr(ShiftRightDigit(w[i], shift),
                                       IF i = Len(w) THEN 0
                                       ELSE ShiftLeftDigit(w[i + 1],
                                                           digit_bits - shift))])]
        Move(dm) == Bits(begin + to_size_t(dm.q), to_size_t(dm.r))
    IN  IF Len(rhs) = 0 THEN [begin |-> begin, vec |-> vec]
        ELSE IF compare(rhs, uint(((Len(vec) - begin) * digit_bits) % DigitBase)) >= 0
        THEN [begin |-> 0, vec |-> <<>>]
        ELSE Move(divmod(rhs, uint(digit_bits)))

\* src/uint_t.hh:189-203, prepend(sz, 0): the digits hidden below the
\* window are taken first; for the rest the vector grows at the front by
\* what grow() returns, surplus digits more than asked for
prepend(begin, vec, sz, surplus) ==
    LET min == Min(begin, sz)
        filled == [i \in 1..Len(vec) |->
                      IF i > begin - min /\ i <= begin THEN 0 ELSE vec[i]]
    IN  IF sz - min > 0
        THEN [begin |-> surplus, vec |-> Zeros(sz - min + surplus) \o filled]
        ELSE [begin |-> begin - min, vec |-> filled]

\* src/uint_t.hh:996-1029, operator<<=: [begin, vec] afterwards
bitwise_lshift_inplace(begin, vec, rhs, surplus) ==
    LET Bits(p, shifts, shift) ==
            LET w == Window(p.begin, p.vec)
                top == IF Len(w) > shifts
                       THEN ShiftRightDigit(w[Len(w)], digit_bits - shift)
                       ELSE 0
            IN  IF shift = 0 THEN [begin |-> p.begin, vec |-> TrimWindow(p.begin, p.vec)]
                ELSE [begin |-> p.begin,
                      vec |-> TrimWindow(p.begin,
                          SubSeq(p.vec, 1, p.begin)
                          \o [i \in 1..Len(w) |->
                                 IF i <= shifts THEN w[i]
                                 ELSE BitOr(ShiftLeftDigit(w[i], shift),
                                            IF i = shifts + 1 THEN 0
                                            ELSE ShiftRightDigit(w[i - 1],
                                                                 digit_bits - shift))]
                          \o (IF top # 0 THEN <<top>> ELSE <<>>))]
        Move(shifts, shift) ==
            Bits(IF shifts # 0 THEN prepend(begin, vec, shifts, surplus)
                 ELSE [begin |-> begin, vec |-> vec], shifts, shift)
        Split(dm) == Move(to_size_t(dm.q), to_size_t(dm.r))
    IN  IF Len(rhs) = 0 THEN [begin |-> begin, vec |-> vec]
        ELSE Split(divmod(rhs, uint(digit_bits)))

\* the value the object named who shows
Shown(who) == Window(a[who].begin, c[a[who].ref])

OtherOf(who) == IF who = "x" THEN "y" ELSE "x"

\* x is a number a constructor made, y a default-constructed object
CopyInit ==
    /\ pc = "building"
    /\ a = [x |-> [ref |-> "x", begin |-> 0], y |-> [ref |-> "y", begin |-> 0]]
    /\ \E n \in CanonicalUpTo(CopyDigits, CopyMaxLen) : c = [x |-> n, y |-> <<>>]
    /\ b = [last |-> "none", kept |-> <<>>, begin |-> 0]
    /\ out = 0

\* the objects a caller shifts in place: x, and y once it was assigned
CopyShifted == IF pc = "assigned" THEN {"x", "y"} ELSE {"x"}

\* who >>= n
RshiftAssign ==
    /\ out < CopyMaxSteps
    /\ \E who \in CopyShifted, n \in CopyShifts :
          LET Store(r) ==
                  /\ a' = [a EXCEPT ![who].begin = r.begin]
                  /\ c' = [c EXCEPT ![a[who].ref] = r.vec]
                  /\ b' = [b EXCEPT !.last = who, !.kept = Shown(OtherOf(who))]
          IN  Store(bitwise_rshift_inplace(a[who].begin, c[a[who].ref], uint(n)))
    /\ out' = out + 1
    /\ UNCHANGED pc

\* who <<= n
LshiftAssign ==
    /\ out < CopyMaxSteps
    /\ \E who \in CopyShifted, n \in CopyShifts, surplus \in 0..CopyMaxSurplus :
          LET Store(r) ==
                  /\ a' = [a EXCEPT ![who].begin = r.begin]
                  /\ c' = [c EXCEPT ![a[who].ref] = r.vec]
                  /\ b' = [b EXCEPT !.last = who, !.kept = Shown(OtherOf(who))]
          IN  Store(bitwise_lshift_inplace(a[who].begin, c[a[who].ref], uint(n),
                                           surplus))
    /\ out' = out + 1
    /\ UNCHANGED pc

\* x = x
AssignSelf ==
    /\ out < CopyMaxSteps /\ pc = "building"
    /\ LET Store(r) ==
               /\ a' = [a EXCEPT !["x"] = r.obj]
               /\ c' = r.vectors
       IN  Store(operator_assign(a["x"], a["x"], c))
    /\ b' = [b EXCEPT !.last = "none"]
    /\ out' = out + 1
    /\ UNCHANGED pc

\* y = x
Assign ==
    /\ out < CopyMaxSteps /\ pc = "building"
    /\ LET Store(r) ==
               /\ a' = [a EXCEPT !["y"] = r.obj]
               /\ c' = r.vectors
       IN  Store(operator_assign(a["y"], a["x"], c))
    /\ b' = [last |-> "assign", kept |-> Shown("x"), begin |-> a["x"].begin]
    /\ pc' = "assigned"
    /\ out' = out + 1

CopyNext == RshiftAssign \/ LshiftAssign \/ AssignSelf \/ Assign

SpecCopy == CopyInit /\ [][CopyNext]_vars

\* C20: after y = x, y shows the value x showed before the assignment and
\* x still shows it; after that, an operation in place on one of the two
\* leaves the value the other shows as it was.
C20_AssignIsDeepCopy ==
    /\ b.last = "assign" => (Shown("y") = b.kept /\ Shown("x") = b.kept)
    /\ (pc = "assigned" /\ b.last \in {"x", "y"}) => Shown(OtherOf(b.last)) = b.kept

\* x had been shifted in place so that its window began above the start of
\* its vector when y = x ran, and x was shifted in place again afterwards:
\* y shows a non-zero value that x no longer shows
C20_Witness ==
    /\ pc = "assigned" /\ b.last = "x" /\ b.begin > 0
    /\ Shown("y") # <<>> /\ Shown("y") # Shown("x")

---------------------------------------------------------------------------
(* SpecPlace: a bundled codec built without BLOCK_PADDING encodes a number *)
(* n > 0 with the checksum off, and the text is read back by place value.  *)
(*   a = n, b = the codec's name, c = the half-digit a read past the end   *)
(*   of the number would give, out = [text, value].                        *)

PlaceMaxLen == 2
PlaceDigits == {0, 1, 57, 255, 256, 32768, 65535}

\* the bundled codecs of src/base_x.hh:313-454 whose block size is 0
PlaceCodecs == {name \in CodecNames : Codec(name).block_size = 0}

\* s * m + carry in digits, least significant first, for a canonical s
RECURSIVE PlaceMulAdd(_, _, _)
PlaceMulAdd(s, m, carry) ==
    IF Len(s) = 0
    THEN IF carry = 0 THEN <<>>
         ELSE <<carry % DigitBase>> \o PlaceMulAdd(<<>>, m, carry \div DigitBase)
    ELSE <<(s[1] * m + carry) % DigitBase>>
         \o PlaceMulAdd(Tail(s), m, (s[1] * m + carry) \div DigitBase)

\* the sum over i of ord(c[i]) * B^i for the text c[k-1] ... c[0], the
\* characters up to index hi taken from the left, as a canonical number
RECURSIVE PlaceValue(_, _, _)
PlaceValue(codec, text, hi) ==
    IF hi = 0 THEN <<>>
    ELSE PlaceMulAdd(PlaceValue(codec, text, hi - 1), codec.base,
                     codec.ord[text[hi]])

PlaceInit ==
    /\ pc = "start"
    /\ b \in PlaceCodecs
    /\ a \in {s \in SeqsUpTo(PlaceDigits, PlaceMaxLen) : ~IsZero(s)}
    /\ c \in StaleHalfDigits
    /\ out = [text |-> <<>>, value |-> <<>>]

\* encode(num), checksum off
EncodePlaces ==
    /\ pc = "start"
    /\ out' = [out EXCEPT !.text = encode(Codec(b), a, FALSE, c)]
    /\ pc' = "encoded"
    /\ UNCHANGED <<a, b, c>>

\* the text read as a numeral in base B over the codec's alphabet
ReadPlaces ==
    /\ pc = "encoded"
    /\ \A k \in 1..Len(out.text) : out.text[k] \in 0..127
    /\ out' = [out EXCEPT !.value = PlaceValue(Codec(b), out.text, Len(out.text))]
    /\ pc' = "done"
    /\ UNCHANGED <<a, b, c>>

PlaceNext == EncodePlaces \/ ReadPlaces

SpecPlace == PlaceInit /\ [][PlaceNext]_vars

---------------------------------------------------------------------------
(* SpecText: a text is tested with is_valid, decoded to a number and the   *)
(* number encoded again, by a codec whose block size is 0, checksum off.   *)
(*   a = the text e, b = the codec's name, c = the half-digit a read past  *)
(*   the end of the number would give, out = [valid, dec, text].           *)

TextMaxLen == 2

\* StripTrailing from the other end
StripLeading(s, x) == Reverse(StripTrailing(Reverse(s), x))

TextInit ==
    /\ pc = "start"
    /\ b \in PlaceCodecs
    /\ a \in SeqsUpTo(CaseSampleChars(b), TextMaxLen)
    /\ c \in StaleHalfDigits
    /\ out = [valid |-> "none", dec |-> NoDecodeResult, text |-> <<>>]

\* is_valid(encoded, encoded_size)
ValidateText ==
    /\ pc = "start"
    /\ LET Store(v) ==
               /\ out' = [out EXCEPT !.valid = v]
               /\ pc' = IF v = "true" THEN "valid" ELSE "refused"
       IN  Store(is_valid(Codec(b), a, FALSE))
    /\ UNCHANGED <<a, b, c>>

\* decode(result, encoded, encoded_size)
DecodeText ==
    /\ pc = "valid"
    /\ LET Store(d) ==
               /\ out' = [out EXCEPT !.dec = d]
               /\ pc' = IF d.thrown = "none" THEN "decoded" ELSE "thrown"
       IN  Store(decode(Codec(b), a, FALSE))
    /\ UNCHANGED <<a, b, c>>

\* encode(result, num) of the number decode gave
EncodeText ==
    /\ pc = "decoded"
    /\ out' = [out EXCEPT !.text = encode(Codec(b), out.dec.num, FALSE, c)]
    /\ pc' = "done"
    /\ UNCHANGED <<a, b, c>>

TextNext == ValidateText \/ DecodeText \/ EncodeText

SpecText == TextInit /\ [][TextNext]_vars

\* the characters encode can write: chr[ord[ch]] is ch itself.  An ignored
\* character and a letter in the case the alphabet does not hold are not.
Written(codec, ch) == ch <= 127 /\ BaseX_chr(codec, codec.ord[ch]) = ch

\* C22: for every codec with block size 0 and every text e that is_valid
\* accepts, whose characters are all characters encode writes, decode
\* succeeds and encode(decode(e)) is e without its leading chr[0]
\* characters, or the one character chr[0] where nothing else is left.
C22_ReencodeWrittenText ==
    /\ pc # "thrown"
    /\ (pc = "done" /\ \A k \in 1..Len(a) : Written(Codec(b), a[k])) =>
          out.text = (IF StripLeading(a, BaseX_chr(Codec(b), 0)) = <<>>
                      THEN <<BaseX_chr(Codec(b), 0)>>
                      ELSE StripLeading(a, BaseX_chr(Codec(b), 0)))

\* C22 as stated: for every text e that is_valid accepts, encode(decode(e))
\* is e without its leading chr[0] characters.
C22_ReencodeValidText ==
    pc = "done" => out.text = StripLeading(a, BaseX_chr(Codec(b), 0))

\* a text that begins with chr[0] and goes on with another digit came back
\* without the chr[0]
C22_Witness ==
    /\ pc = "done" /\ Len(a) = 2
    /\ a[1] = BaseX_chr(Codec(b), 0) /\ Written(Codec(b), a[2])
    /\ out.text = <<a[2]>> /\ out.text # a

---------------------------------------------------------------------------
(* SpecProduct: one product a * b of non-zero canonical operands, of sizes  *)
(* that select each kernel of mult, set against the product worked out     *)
(* column by column.  out = the result of mult.                             *)

ProductMaxLen == 2
ProductDigits == {0, 1, 65535}

\* the canonical operands other than 0 of at most ProductMaxLen digits
ProductSmall == CanonicalUpTo(ProductDigits, ProductMaxLen) \ {<<>>}

\* operands above the cutoff: symmetric Karatsuba between themselves
ProductWide == {Repeat(1, MulWide), Repeat(DigitMax, MulWide)}

\* operands of 2 * MulWide + 1 digits, lopsided against a wide one: the
\* first window of MulWide digits is non-zero in one and zero in the other
ProductLopsided ==
    {MulLopsided, Zeros(MulWide) \o <<1>> \o Zeros(MulWide - 1) \o <<1>>}

\* octet i (from 0) of the number s, 0 beyond its end
ProductOctet(s, i) ==
    IF i \div digit_octets >= Len(s) THEN 0
    ELSE IF i % digit_octets = 0 THEN s[i \div digit_octets + 1] % HalfBase
    ELSE s[i \div digit_octets + 1] \div HalfBase

\* the sum over i in lo..hi of x's octet i times y's octet k - i
RECURSIVE ProductColumn(_, _, _, _, _)
ProductColumn(x, y, k, lo, hi) ==
    IF lo > hi THEN 0
    ELSE IF lo = hi THEN ProductOctet(x, lo) * ProductOctet(y, k - lo)
    ELSE ProductColumn(x, y, k, lo, (lo + hi) \div 2)
         + ProductColumn(x, y, k, (lo + hi) \div 2 + 1, hi)

\* the octets lo..hi of x * y appended to st.octets, the carry kept in
\* st.carry
RECURSIVE ProductOctets(_, _, _, _, _)
ProductOctets(x, y, lo, hi, st) ==
    IF lo > hi \/ Len(st.octets) > lo THEN st
    ELSE IF lo = hi
    THEN LET Put(t) == [carry |-> t \div HalfBase,
                        octets |-> Append(st.octets, t % HalfBase)]
         IN  Put(st.carry + ProductColumn(x, y, lo, Max(0, lo + 1 - digit_octets * Len(y)),
                                          Min(lo, digit_octets * Len(x) - 1)))
    ELSE ProductOctets(x, y, (lo + hi) \div 2 + 1, hi,
                       ProductOctets(x, y, lo, (lo + hi) \div 2, st))

\* the mathematical product x * y as a canonical number
Product(x, y) ==
    LET Digits(o) ==
            StripZeros([i \in 1..(Len(o) \div digit_octets) |->
                           o[digit_octets * i - 1] + HalfBase * o[digit_octets * i]])
    IN  Digits(ProductOctets(x, y, 0, digit_octets * (Len(x) + Len(y)) - 1,
                             [carry |-> 0, octets |-> <<>>]).octets)

ProductInit ==
    /\ pc = "start"
    /\ a \in ProductSmall \cup ProductWide
    /\ b \in ProductSmall \cup ProductWide \cup ProductLopsided
    /\ c = "a * b"
    /\ out = <<>>

\* a * b, operator* (src/uint_t.hh:2000-2002)
Multiply ==
    /\ pc = "start"
    /\ out' = mult(a, b)
    /\ c' = "a * b"
    /\ pc' = "done"
    /\ UNCHANGED <<a, b>>

\* b * a
MultiplyCommuted ==
    /\ pc = "start"
    /\ out' = mult(b, a)
    /\ c' = "b * a"
    /\ pc' = "done"
    /\ UNCHANGED <<a, b>>

ProductNext == Multiply \/ MultiplyCommuted

SpecProduct == ProductInit /\ [][ProductNext]_vars

\* C23: for all non-zero canonical a and b, mult(a, b) is the product a * b,
\* whichever kernel the sizes select: single digit, schoolbook, symmetric
\* Karatsuba or lopsided Karatsuba.
C23_MultIsProduct == pc = "done" => out = Product(a, b)

---------------------------------------------------------------------------
(* SpecKnuth: one call of divmod(lhs, rhs), run pass by pass: the sweep of *)
(* single_divmod, and D1 to D8 of knuth_divmod with the loop that tightens *)
(* the trial quotient as steps of its own.                                 *)
(*   a = lhs, b = rhs, c = the locals of the running function,             *)
(*   out = [thrown, q, r, hi, y, calls, lowered, passes]: the outputs, the *)
(*   arguments of the last call of _divmod, the count of such calls, the   *)
(*   decrements of the trial quotient in the running pass of the           *)
(*   tightening loop and the passes of the outer loop so far.              *)

KnuthMaxLowered == 3

\* the operands: digit sequences as a constructor leaves them, for the
\* divisor also three digits whose upper two are zero
KnuthDivisors == SeqsUpTo(DivDigits, DivMaxDivisor) \cup {<<3, 0, 0>>}

KnuthInit ==
    /\ pc = "start"
    /\ a \in SeqsUpTo(DivDigits, DivMaxDividend)
    /\ b \in KnuthDivisors
    /\ c = [k |-> 0]
    /\ out = [thrown |-> "none", q |-> <<>>, r |-> <<>>, hi |-> 0, y |-> 1,
              calls |-> 0, lowered |-> 0, passes |-> 0]

\* src/uint_t.hh:1637-1674, D1: the locals of knuth_divmod on entry to the
\* loop.  w_size is taken before the shifts.  An empty v or w after the
\* shift (rbegin() of an empty vector) and a w of one digit (wm2 is read
\* before its first) are undefined; v_size < w_size wraps k and the resize
\* of q throws.
KnuthEnter(lhs, rhs) ==
    LET Locals(v, w, w_size, d, v_size) ==
            IF v_size < w_size THEN [fate |-> "length_error"]
            ELSE [fate |-> "loop", v |-> Append(v, 0), w |-> w, w_size |-> w_size,
                  d |-> d, k |-> v_size - w_size, q |-> Zeros(v_size - w_size + 1),
                  wm1 |-> w[Len(w)], wm2 |-> w[Len(w) - 1]]
        Sized(v, w, w_size, d) ==
            IF Len(v) = 0 \/ Len(w) < 2 THEN [fate |-> "undefined"]
            ELSE IF v[Len(v)] >= w[Len(w)]
            THEN Locals(Append(v, 0), w, w_size, d, Len(v) + 1)
            ELSE Locals(v, w, w_size, d, Len(v))
        Shifted(d) == Sized(bitwise_lshift(lhs, d), bitwise_lshift(rhs, d), Len(rhs), d)
    IN  Shifted(uint(digit_bits - _bits(rhs[Len(rhs)])))

\* divmod(quotient, remainder, lhs, rhs), src/uint_t.hh:1732-1768: the
\* shortcuts, or the entry into single_divmod (1610-1620) or knuth_divmod
DivmodCall ==
    /\ pc = "start"
    /\ LET Return(thrown, q, r) ==
               /\ out' = [out EXCEPT !.thrown = thrown, !.q = q, !.r = r]
               /\ pc' = "done" /\ c' = c
           Knuth(e) ==
               IF e.fate = "loop" THEN pc' = "estimate" /\ c' = e /\ out' = out
               ELSE IF e.fate = "undefined" THEN pc' = "undefined" /\ c' = c /\ out' = out
               ELSE Return(e.fate, <<>>, <<>>)
           Ordered(compared) ==
               IF compared = 0 THEN Return("none", uint(1), <<>>)
               ELSE IF Len(a) = 0 \/ compared < 0 THEN Return("none", <<>>, a)
               ELSE IF Len(b) = 1
               THEN /\ pc' = "sweep" /\ out' = out
                    /\ c' = [n |-> b[1], i |-> Len(a), r |-> 0, q |-> Zeros(Len(a))]
               ELSE Knuth(KnuthEnter(a, b))
       IN  IF Len(b) = 0 THEN Return("domain_error", <<>>, <<>>)
           ELSE IF Len(a) = 1 /\ Len(b) = 1
           THEN IF b[1] = 0 THEN pc' = "undefined" /\ c' = c /\ out' = out
                ELSE Return("none", uint(a[1] \div b[1]), uint(a[1] % b[1]))
           ELSE IF compare(b, uint(1)) = 0 THEN Return("none", a, <<>>)
           ELSE Ordered(compare(a, b))
    /\ UNCHANGED <<a, b>>

\* one pass of the loop of single_divmod, src/uint_t.hh:1625-1627:
\* r = _divmod(r, *rit_lhs, n, &*rit_q).  The native division by n = 0 is
\* undefined.
SweepPass ==
    /\ pc = "sweep" /\ c.i > 0
    /\ IF c.n = 0 THEN pc' = "undefined" /\ c' = c /\ out' = out
       ELSE LET Store(dm) ==
                    /\ c' = [c EXCEPT !.i = c.i - 1, !.r = dm.r, !.q[c.i] = dm.q]
                    /\ out' = [out EXCEPT !.hi = c.r, !.y = c.n,
                                          !.calls = out.calls + 1]
                    /\ pc' = pc
            IN  Store(_divmod(c.r, a[c.i], c.n))
    /\ UNCHANGED <<a, b>>

\* src/uint_t.hh:1629-1633: the outputs of single_divmod
SweepReturn ==
    /\ pc = "sweep" /\ c.i = 0
    /\ out' = [out EXCEPT !.q = trim(c.q, 0), !.r = uint(c.r)]
    /\ pc' = "done"
    /\ UNCHANGED <<a, b, c>>

\* D3, src/uint_t.hh:1678-1682: the trial quotient from the two top digits
\* of the window at k, and its first product with wm2
Estimate ==
    /\ pc = "estimate"
    /\ LET Store(est, m) ==
               c' = [fate |-> "loop", v |-> c.v, w |-> c.w, w_size |-> c.w_size,
                     d |-> c.d, k |-> c.k, q |-> c.q, wm1 |-> c.wm1, wm2 |-> c.wm2,
                     tq |-> est.q, tr |-> est.r, mulhi |-> m.hi, mullo |-> m.lo,
                     rlo |-> c.v[c.k + c.w_size - 1]]
           Trial(est) == Store(est, _mult(est.q, c.wm2))
       IN  Trial(_divmod(c.v[c.k + c.w_size + 1], c.v[c.k + c.w_size], c.wm1))
    /\ out' = [out EXCEPT !.hi = c.v[c.k + c.w_size + 1], !.y = c.wm1,
                          !.calls = out.calls + 1, !.lowered = 0,
                          !.passes = out.passes + 1]
    /\ pc' = "tighten"
    /\ UNCHANGED <<a, b>>

\* the test of the while at src/uint_t.hh:1683
TooHigh == c.mulhi > c.tr \/ (c.mulhi = c.tr /\ c.mullo > c.rlo)

\* one pass of the while, src/uint_t.hh:1684-1688
Tighten ==
    /\ pc = "tighten" /\ TooHigh /\ out.lowered < KnuthMaxLowered
    /\ LET Lower(tq, s, m) ==
               /\ c' = [c EXCEPT !.tq = tq, !.tr = s.sum,
                                 !.mulhi = IF s.carry # 0 THEN c.mulhi ELSE m.hi,
                                 !.mullo = IF s.carry # 0 THEN c.mullo ELSE m.lo]
               /\ pc' = IF s.carry # 0 THEN "subtract" ELSE "tighten"
           Dec(tq) == Lower(tq, _addcarry(c.tr, c.wm1, 0), _mult(tq, c.wm2))
       IN  Dec((c.tq - 1) % DigitBase)
    /\ out' = [out EXCEPT !.lowered = out.lowered + 1]
    /\ UNCHANGED <<a, b>>

\* D4 to D7, src/uint_t.hh:1691-1717: multiply and subtract, add back where
\* the subtraction borrowed, store the quotient digit; then the next
\* window, or the exit from the loop
Subtract ==
    /\ pc = "subtract" \/ (pc = "tighten" /\ ~TooHigh)
    /\ LET top == c.k + Len(c.w) + 1
           Store(v, digit) ==
               /\ c' = [c EXCEPT !.v = v, !.q[c.k + 1] = digit, !.k = c.k - 1]
               /\ pc' = IF c.k = 0 THEN "unnormalize" ELSE "estimate"
           Restore(ab) ==
               Store([ab.v EXCEPT ![top] = _addcarry(ab.v[top], 0, ab.carry).sum],
                     (c.tq - 1) % DigitBase)
           Settle(v, borrow) ==
               IF borrow # 0 THEN Restore(KnuthAddBack(v, c.w, c.k, 1, 0))
               ELSE Store(v, c.tq)
           Borrow(ms, t) == Settle([ms.v EXCEPT ![top] = t.sum], t.carry)
           MulSub(ms) == Borrow(ms, _subborrow(ms.v[top], 0, ms.carry))
       IN  MulSub(KnuthMulSub(c.v, c.w, c.tq, c.k, 1, 0, 0))
    /\ UNCHANGED <<a, b, out>>

\* D8, src/uint_t.hh:1720-1729: the remainder is cut to w_size digits and
\* shifted back
Unnormalize ==
    /\ pc = "unnormalize"
    /\ out' = [out EXCEPT !.q = trim(c.q, 0),
                          !.r = trim(bitwise_rshift(Resized(c.v, c.w_size), c.d), 0)]
    /\ pc' = "done"
    /\ UNCHANGED <<a, b, c>>

KnuthNext ==
    \/ DivmodCall \/ SweepPass \/ SweepReturn
    \/ Estimate \/ Tighten \/ Subtract \/ Unnormalize

SpecKnuth == KnuthInit /\ [][KnuthNext]_vars

\* the steps give what the operator divmod gives, for canonical operands
KnuthStepsAgree ==
    (pc = "done" /\ canonical(a) /\ canonical(b)) =>
        /\ out.thrown = divmod(a, b).thrown
        /\ out.thrown = "none" => (out.q = divmod(a, b).q /\ out.r = divmod(a, b).r)

\* C24: every call of _divmod that divmod makes, in the sweep of
\* single_divmod and in each quotient step of knuth_divmod, has hi < y.
C24_DivisionPrecondition == out.calls > 0 => out.hi < out.y

\* C25: in every quotient step of knuth_divmod the tightening loop
\* decrements the trial quotient at most twice before it exits, and the
\* outer loop has run once per quotient digit when divmod returns.
C25_TighteningBounded ==
    /\ out.lowered <= 2
    /\ (pc = "done" /\ out.passes > 0) => out.passes = Len(c.q)

---------------------------------------------------------------------------
(* SpecPad: a bundled codec built with BLOCK_PADDING encodes a number      *)
(* n > 0; the bits encode shifts n left by are kept beside the text.       *)
(*   a = n, b = the codec's name, c = the half-digit a read past the end   *)
(*   of the number would give, out = [bp, text].                           *)

PadMaxLen == 17
PadTops == {1, 255, 256, 65535}

\* the bundled codecs of src/base_x.hh:313-454 built with BLOCK_PADDING
PadCodecs == {name \in CodecNames : Codec(name).block_size > 0}

\* the bit length of the value of a canonical s other than 0
PadBitLength(s) ==
    (Len(s) - 1) * digit_bits
    + (CHOOSE k \in 1..digit_bits : Pow2(k - 1) <= s[Len(s)] /\ s[Len(s)] < Pow2(k))

\* that bit length rounded up to a multiple of 8
PadRounded(s) == ((PadBitLength(s) + 7) \div 8) * 8

PadInit ==
    /\ pc = "start"
    /\ b \in PadCodecs
    /\ a \in {Zeros(n - 1) \o <<top>> : n \in 1..PadMaxLen, top \in PadTops}
    /\ c \in StaleHalfDigits
    /\ out = [bp |-> 0, text |-> <<>>]

\* encode(result, num), src/base_x.hh:89-148; bp is the local of lines
\* 95-101
EncodePadded ==
    /\ pc = "start"
    /\ out' = [bp |-> EncodePadding(Codec(b), a),
               text |-> encode(Codec(b), a, FALSE, c)]
    /\ pc' = "done"
    /\ UNCHANGED <<a, b, c>>

PadNext == EncodePadded

SpecPad == PadInit /\ [][PadNext]_vars

\* C26: for a codec with block_size > 0 and every n > 0 of any bit length,
\* encode shifts n left by bp = block_size - (R mod block_size) where
\* R mod block_size is not 0 and by 0 otherwise, R being bits(n) rounded up
\* to a multiple of 8.
C26_PreShift ==
    pc = "done" =>
        out.bp = (IF PadRounded(a) % Codec(b).block_size # 0
                  THEN Codec(b).block_size - (PadRounded(a) % Codec(b).block_size)
                  ELSE 0)


(***************************************************************************)
(* SpecBlock: a byte string whose first byte is not zero goes through a    *)
(* codec built with BLOCK_PADDING and back.                                *)
(*   a = the byte string, b = the codec's name, c = what a read past the   *)
(*   end of the shifted number gives, out = [enc, dec] as in SpecCodec.    *)
(***************************************************************************)

BlockMaxBytes == 3
BlockBytes == {0, 1, 65, 128, 255}

BlockInit ==
    /\ pc = "start"
    /\ b \in PadCodecs
    /\ a \in {s \in SeqsUpTo(BlockBytes, BlockMaxBytes) : Len(s) > 0 /\ s[1] # 0}
    /\ c \in StaleHalfDigits
    /\ out = NoCodecResult

\* encode(bytes, size), src/base_x.hh:157-160 over 89-148
EncodeBlock ==
    /\ pc = "start"
    /\ out' = [out EXCEPT !.enc = encode_bytes(Codec(b), a, FALSE, c)]
    /\ pc' = "encoded"
    /\ UNCHANGED <<a, b, c>>

\* decode<std::string>(encoded), src/base_x.hh:241-246 over 193-239
DecodeBlock ==
    /\ pc = "encoded"
    /\ LET Store(d) ==
               out' = [out EXCEPT !.dec = [thrown |-> d.thrown, num |-> <<>>,
                                           text |-> d.text]]
       IN  Store(decode_bytes(Codec(b), out.enc.text, FALSE))
    /\ pc' = "done"
    /\ UNCHANGED <<a, b, c>>

BlockNext == EncodeBlock \/ DecodeBlock

SpecBlock == BlockInit /\ [][BlockNext]_vars

\* C27: for every codec built with BLOCK_PADDING and every byte string s
\* whose first byte is not zero, encode emits every bit of the pre-shifted
\* value and decode's right shift undoes the pre-shift, so that decoding
\* encode(s) to bytes gives s.
C27_BlockRoundTrip ==
    /\ pc = "encoded" => out.enc.thrown = "none"
    /\ pc = "done" => (out.dec.thrown = "none" /\ out.dec.text = a)


(***************************************************************************)
(* SpecCarry: additions and subtractions on one number x, with the _carry  *)
(* member (src/uint_t.hh:142) beside the digits.                           *)
(*   a = x as [digits, carry], b = the operand y of the last operation,    *)
(*   c = the operations done, out = [op, lhs, r]: the last operation, the  *)
(*   digits of x before it and the object it produced.                     *)
(***************************************************************************)

CarryMaxSteps == 3
CarryMaxLen == 2
CarryDigits == {0, 1, 65535}

\* a number as the integral constructors leave it, src/uint_t.hh:1808-1829
Fresh(s) == [digits |-> s, carry |-> FALSE]

\* sub with the flag, src/uint_t.hh:1359-1376: the shortcut for rhs = 0
\* returns lhs itself (1361-1363) or assigns it to result (1370-1373,
\* operator= copies _carry at 1849); long_sub stores the borrow (1352)
sub_carry(result, lhs, rhs) ==
    IF Len(rhs.digits) = 0 THEN lhs
    ELSE long_sub(result.digits, lhs.digits, rhs.digits, 0, 0, 0)

\* add with the flag, src/uint_t.hh:1268-1293: the two shortcuts return or
\* copy an operand with its flag; long_add clears the flag (1261)
add_carry(result, lhs, rhs) ==
    IF Len(rhs.digits) = 0 THEN lhs
    ELSE IF Len(lhs.digits) = 0 THEN rhs
    ELSE [digits |-> long_add(result.digits, lhs.digits, rhs.digits, 0, 0, 0),
          carry |-> FALSE]

CarryInit ==
    /\ pc = "ready"
    /\ a \in {Fresh(s) : s \in CanonicalUpTo(CarryDigits, CarryMaxLen)}
    /\ b = <<>>
    /\ c = 0
    /\ out = [op |-> "none", lhs |-> <<>>, r |-> Fresh(<<>>)]

CarryStep(op, r, y) ==
    /\ c < CarryMaxSteps
    /\ out' = [op |-> op, lhs |-> a.digits, r |-> r]
    /\ a' = r
    /\ b' = y
    /\ c' = c + 1
    /\ pc' = "ready"

\* x += y, src/uint_t.hh:1988-1990
PlusAssign ==
    \E y \in CanonicalUpTo(CarryDigits, CarryMaxLen) :
        CarryStep("+=", add_carry(a, a, Fresh(y)), y)

\* x = x + y, src/uint_t.hh:1984-1986 over 1295-1299
PlusValue ==
    \E y \in CanonicalUpTo(CarryDigits, CarryMaxLen) :
        CarryStep("+", add_carry(Fresh(<<>>), a, Fresh(y)), y)

\* x -= y, src/uint_t.hh:1996-1998
MinusAssign ==
    \E y \in CanonicalUpTo(CarryDigits, CarryMaxLen) :
        CarryStep("-=", sub_carry(a, a, Fresh(y)), y)

\* x = x - y, src/uint_t.hh:1992-1994 over 1378-1382
MinusValue ==
    \E y \in CanonicalUpTo(CarryDigits, CarryMaxLen) :
        CarryStep("-", sub_carry(Fresh(<<>>), a, Fresh(y)), y)

CarryNext == PlusAssign \/ PlusValue \/ MinusAssign \/ MinusValue

SpecCarry == CarryInit /\ [][CarryNext]_vars

\* x < y for canonical digit sequences, from the most significant digit
CarryLess(x, y) ==
    \/ Len(x) < Len(y)
    \/ /\ Len(x) = Len(y)
       /\ \E i \in 1..Len(x) :
             /\ x[i] < y[i]
             /\ \A j \in (i + 1)..Len(x) : x[j] = y[j]

\* the n digits of (x + y) mod 2^(W n), digit by digit
RECURSIVE CarryWrapSum(_, _, _, _, _)
CarryWrapSum(x, y, n, i, carry) ==
    IF i > n THEN <<>>
    ELSE LET Digit(s) ==
                 <<s % DigitBase>> \o CarryWrapSum(x, y, n, i + 1, s \div DigitBase)
         IN  Digit(value(x, i - 1) + value(y, i - 1) + carry)

\* r is (x - y) mod 2^(W n) trimmed, n the longer of the two lengths
CarryIsDifference(r, x, y) ==
    /\ canonical(r)
    /\ Len(r) <= Max(Len(x), Len(y))
    /\ StripZeros(CarryWrapSum(r, y, Max(Len(x), Len(y)), 1, 0)) = x

\* C28: after any sequence of additions and subtractions, the carry flag
\* of the result r of a subtraction a - b is true exactly when a < b, and
\* r's digits are (a - b) mod 2^(W max(len a, len b)) trimmed (a - b itself
\* when a >= b); also when b = 0 and when a is the result of an earlier
\* underflowing subtraction.
C28_CarryIsUnderflow ==
    out.op \in {"-", "-="} =>
        /\ out.r.carry <=> CarryLess(out.lhs, b)
        /\ CarryIsDifference(out.r.digits, out.lhs, b)


(***************************************************************************)
(* SpecMultadd: the multiply-add primitive on each of its paths that the   *)
(* source spells out in C++: the double-width sum of the 16-bit build      *)
(* (src/uint_t.hh:421-424), the __uint128_t sum of the 64-bit build        *)
(* (398-402) and the half-digit split the 64-bit build falls back to where *)
(* the compiler has no 128-bit integer (404-416).  A 64-bit word is held   *)
(* as a canonical sequence of 16-bit pieces, least significant first.      *)
(*   a = [x, y, a, c], the four arguments, b = the path, c = unused,       *)
(*   out = [hi, lo, wrapped]: the two results, and whether a sum of the    *)
(*   path went past the width of the type that holds it.                   *)
(***************************************************************************)

\* the pieces of a 64-bit word and of its half
WordPieces == 64 \div digit_bits
HalfWordPieces == 32 \div digit_bits

MultaddPaths == {"uint32_t", "__uint128_t", "split"}

\* 0, 1, 2^32 - 1, 2^32, 2^64 - 2^32 and 2^64 - 1
MultaddWords ==
    {<<>>, <<1>>, Repeat(DigitMax, HalfWordPieces),
     Zeros(HalfWordPieces) \o <<1>>,
     Zeros(HalfWordPieces) \o Repeat(DigitMax, HalfWordPieces),
     Repeat(DigitMax, WordPieces)}

MultaddDigits == {<<>>, <<1>>, <<255>>, <<256>>, <<DigitMax>>}

\* the exact sum of two numbers
WordSum(x, y) ==
    StripZeros(CarryWrapSum(x, y, Max(Len(x), Len(y)) + 1, 1, 0))

\* a value stored into a type of n pieces: the bits above are dropped
WordStore(s, n) == StripZeros(SubSeq(s, 1, Min(Len(s), n)))

\* v >> (16 n) and v << (16 n) before the store
WordHigh(v, n) == SubSeq(v, n + 1, Len(v))
WordShifted(v, n) == IF Len(v) = 0 THEN v ELSE Zeros(n) \o v

\* src/uint_t.hh:398-402, digit_bits = 64 with __uint128_t: the sum is
\* taken in 128 bits, lo is its store into a digit, hi its upper half
_multadd_uint128(x, y, add_a, add_c) ==
    LET Halves(exact, r) ==
            [lo |-> WordStore(r, WordPieces), hi |-> WordHigh(r, WordPieces),
             wrapped |-> exact # r]
        Sum(exact) == Halves(exact, WordStore(exact, 2 * WordPieces))
    IN  Sum(WordSum(WordSum(Product(x, y), add_a), add_c))

\* src/uint_t.hh:404-416, digit_bits = 64 without __uint128_t: every
\* variable is a 64-bit digit
_multadd_split(x, y, add_a, add_c) ==
    LET Lo32(v) == WordStore(v, HalfWordPieces)
        Hi32(v) == WordHigh(v, HalfWordPieces)
        Out(u, v, w, hi) ==
            [lo |-> WordStore(WordSum(WordShifted(WordStore(w, WordPieces),
                                                  HalfWordPieces),
                                      Lo32(u)), WordPieces),
             hi |-> WordStore(hi, WordPieces),
             wrapped |-> \E s \in {u, v, w, hi} : Len(s) > WordPieces]
        High(x1, y1, u, v, vs, w) ==
            Out(u, v, w,
                WordSum(WordSum(Product(x1, y1), Hi32(vs)),
                        Hi32(WordStore(w, WordPieces))))
        W(x0, x1, y1, u, v, vs) ==
            High(x1, y1, u, v, vs, WordSum(Product(x0, y1), Lo32(vs)))
        V(x0, x1, y0, y1, u, us) ==
            LET v == WordSum(WordSum(WordSum(Product(x1, y0), Hi32(us)),
                                     Hi32(add_a)), Hi32(add_c))
            IN  W(x0, x1, y1, u, v, WordStore(v, WordPieces))
        U(x0, x1, y0, y1) ==
            LET u == WordSum(WordSum(Product(x0, y0), Lo32(add_a)), Lo32(add_c))
            IN  V(x0, x1, y0, y1, u, WordStore(u, WordPieces))
    IN  U(Lo32(x), Hi32(x), Lo32(y), Hi32(y))

MultaddInit ==
    /\ pc = "start"
    /\ b \in MultaddPaths
    /\ a \in [x : IF b = "uint32_t" THEN MultaddDigits ELSE MultaddWords,
              y : IF b = "uint32_t" THEN MultaddDigits ELSE MultaddWords,
              a : IF b = "uint32_t" THEN MultaddDigits ELSE MultaddWords,
              c : IF b = "uint32_t" THEN MultaddDigits ELSE MultaddWords]
    /\ c = 0
    /\ out = [hi |-> <<>>, lo |-> <<>>, wrapped |-> FALSE]

\* _multadd of the 16-bit build
MultaddDouble ==
    /\ pc = "start" /\ b = "uint32_t"
    /\ LET Store(r) == out' = [hi |-> uint(r.hi), lo |-> uint(r.lo), wrapped |-> FALSE]
       IN  Store(_multadd(to_size_t(a.x), to_size_t(a.y), to_size_t(a.a),
                          to_size_t(a.c)))
    /\ pc' = "done"
    /\ UNCHANGED <<a, b, c>>

\* _multadd of the 64-bit build with __uint128_t
MultaddWide ==
    /\ pc = "start" /\ b = "__uint128_t"
    /\ out' = _multadd_uint128(a.x, a.y, a.a, a.c)
    /\ pc' = "done"
    /\ UNCHANGED <<a, b, c>>

\* _multadd of the 64-bit build without __uint128_t
MultaddSplit ==
    /\ pc = "start" /\ b = "split"
    /\ out' = _multadd_split(a.x, a.y, a.a, a.c)
    /\ pc' = "done"
    /\ UNCHANGED <<a, b, c>>

MultaddNext == MultaddDouble \/ MultaddWide \/ MultaddSplit

SpecMultadd == MultaddInit /\ [][MultaddNext]_vars

\* the pieces of a digit on the path b
MultaddWidth == IF b = "uint32_t" THEN 1 ELSE WordPieces

\* C29: on every path of the multiply-add primitive, the split fallback
\* included, the results satisfy hi * 2^W + lo = x * y + a + c for all
\* digits x, y, a, c, and no intermediate sum of the path wraps around the
\* width of its type.
C29_MultaddContract ==
    pc = "done" =>
        /\ ~out.wrapped
        /\ StripZeros(out.lo \o Zeros(MultaddWidth - Len(out.lo)) \o out.hi)
           = WordSum(WordSum(Product(a.x, a.y), a.a), a.c)


(***************************************************************************)
(* SpecInplace: a number x is shifted in place a few times, which moves    *)
(* its window over its vector, and then one operator is run on it in both  *)
(* forms: x op y on the value x shows, and x op= y on the object.          *)
(*   a = x as [begin, vec]: _begin and the vector (_end is 0),             *)
(*   b = the operand y, a number a constructor made,                       *)
(*   c = the in-place shifts run,                                          *)
(*   out = [op, value, inplace]: the operator, what x op y returned and    *)
(*   what x shows after x op= y.                                           *)
(***************************************************************************)

InplaceMaxShifts == 2
InplaceMaxLen == 2
InplaceMaxSurplus == 1
InplaceDigits == {1, 32768, 65535}
InplaceOperands == {<<>>, <<1>>, <<2>>, <<65535>>, <<1, 1>>}
InplaceShifts == {0, 1, digit_bits, digit_bits + 1}

\* the object after a kernel wrote the digits s through the window:
\* resize() and trim() leave the digits below _begin as they were
InplaceWritten(x, s) == [begin |-> x.begin, vec |-> SubSeq(x.vec, 1, x.begin) \o s]

\* the object after operator= from another object, or after a move from a
\* temporary: _begin is 0 and the vector holds the digits of the source
Assigned(s) == [begin |-> 0, vec |-> s]

\* src/uint_t.hh:1268-1279, add(lhs, rhs) over long_add(lhs, lhs, rhs)
add_inplace(x, rhs) ==
    LET Sum(w) ==
            IF Len(rhs) = 0 THEN x
            ELSE IF Len(w) = 0 THEN Assigned(rhs)
            ELSE InplaceWritten(x, long_add(w, w, rhs, 0, 0, 0))
    IN  Sum(Window(x.begin, x.vec))

\* src/uint_t.hh:1359-1366, sub(lhs, rhs) over long_sub(lhs, lhs, rhs)
sub_inplace(x, rhs) ==
    LET Difference(w) ==
            IF Len(rhs) = 0 THEN x
            ELSE InplaceWritten(x, long_sub(w, w, rhs, 0, 0, 0).digits)
    IN  Difference(Window(x.begin, x.vec))

\* src/uint_t.hh:1579-1600, mult(lhs, rhs) = mult(lhs, lhs, rhs): with
\* rhs = 1 the result, which is lhs, is assigned lhs (1594-1596), and
\* operator= clears _begin before it reads its source (1846-1848); the
\* kernels move a temporary into the result (1409, 1460, 1572)
mult_inplace(x, rhs) ==
    LET Self(r) == [begin |-> r.obj.begin, vec |-> r.vectors["x"]]
        Product_inplace(w) ==
            IF Len(w) = 0 \/ Len(rhs) = 0 THEN Assigned(<<>>)
            ELSE IF compare(w, uint(1)) = 0 THEN Assigned(rhs)
            ELSE IF compare(rhs, uint(1)) = 0
            THEN Self(operator_assign([ref |-> "x", begin |-> x.begin],
                                      [ref |-> "x", begin |-> x.begin],
                                      [x |-> x.vec]))
            ELSE Assigned(karatsuba_mult(w, rhs, karatsuba_cutoff))
    IN  Product_inplace(Window(x.begin, x.vec))

InplaceInit ==
    /\ pc = "building"
    /\ a \in {Assigned(n) : n \in CanonicalUpTo(InplaceDigits, InplaceMaxLen)}
    /\ b \in InplaceOperands
    /\ c = 0
    /\ out = [op |-> "none", value |-> <<>>, inplace |-> <<>>]

\* x >>= n
InplaceRshift ==
    /\ pc = "building" /\ c < InplaceMaxShifts
    /\ \E n \in InplaceShifts : a' = bitwise_rshift_inplace(a.begin, a.vec, uint(n))
    /\ c' = c + 1
    /\ UNCHANGED <<pc, b, out>>

\* x <<= n
InplaceLshift ==
    /\ pc = "building" /\ c < InplaceMaxShifts
    /\ \E n \in InplaceShifts, surplus \in 0..InplaceMaxSurplus :
          a' = bitwise_lshift_inplace(a.begin, a.vec, uint(n), surplus)
    /\ c' = c + 1
    /\ UNCHANGED <<pc, b, out>>

\* both forms of one operator on the x that was built
InplaceBoth(op, returned, after) ==
    /\ pc = "building"
    /\ out' = [op |-> op, value |-> returned, inplace |-> Window(after.begin, after.vec)]
    /\ a' = after
    /\ pc' = "done"
    /\ UNCHANGED <<b, c>>

\* the value x shows
InplaceShown == Window(a.begin, a.vec)

\* x + y and x += y, src/uint_t.hh:1984-1990
BothPlus == InplaceBoth("+", plus(InplaceShown, b), add_inplace(a, b))

\* x - y and x -= y, src/uint_t.hh:1992-1998
BothMinus == InplaceBoth("-", minus(InplaceShown, b), sub_inplace(a, b))

\* x * y and x *= y, src/uint_t.hh:2000-2006
BothTimes == InplaceBoth("*", mult(InplaceShown, b), mult_inplace(a, b))

\* x & y and x &= y, src/uint_t.hh:1896-1902
BothAnd ==
    InplaceBoth("&", bitwise_and(InplaceShown, b),
                InplaceWritten(a, bitwise_and(InplaceShown, b)))

\* x | y and x |= y, src/uint_t.hh:1904-1910
BothOr ==
    InplaceBoth("|", bitwise_or(InplaceShown, b),
                InplaceWritten(a, bitwise_or(InplaceShown, b)))

\* x ^ y and x ^= y, src/uint_t.hh:1912-1918
BothXor ==
    InplaceBoth("^", bitwise_xor(InplaceShown, b),
                InplaceWritten(a, bitwise_xor(InplaceShown, b)))

\* x << y and x <<= y, src/uint_t.hh:1929-1935
BothLshift ==
    \E surplus \in 0..InplaceMaxSurplus :
        InplaceBoth("<<", bitwise_lshift(InplaceShown, b),
                    bitwise_lshift_inplace(a.begin, a.vec, b, surplus))

\* x >> y and x >>= y, src/uint_t.hh:1937-1943
BothRshift ==
    InplaceBoth(">>", bitwise_rshift(InplaceShown, b),
                bitwise_rshift_inplace(a.begin, a.vec, b))

InplaceNext ==
    \/ InplaceRshift \/ InplaceLshift
    \/ BothPlus \/ BothMinus \/ BothTimes
    \/ BothAnd \/ BothOr \/ BothXor
    \/ BothLshift \/ BothRshift

SpecInplace == InplaceInit /\ [][InplaceNext]_vars

\* C30: for every operator op of +, -, *, &, |, ^, <<, >>, every operand y
\* and every x reached by public operations, in-place right shifts by
\* whole digits included, x op= y leaves x equal to the value x op y
\* computed from x's prior value.
C30_InplaceAgrees == pc = "done" => out.inplace = out.value

====
